---- MODULE Spec2Model ----
(***************************************************************************)
(* A model of the smile storage core:                                      *)
(*   - FileStorage (src/src/storage/file_storage.cpp): an extent-addressed *)
(*     file with a persisted header in extent 0;                           *)
(*   - the B+tree node lifecycle and point lookup                          *)
(*     (src/src/data/impl/btree_impl.h) against a buffer pool.             *)
(*                                                                         *)
(* The file is modelled as a sequence of 1 KiB blocks: every offset and    *)
(* every length FileStorage uses is a multiple of 1024 bytes, except the   *)
(* write of the config record, which overwrites the first sizeof(m_config) *)
(* bytes of block 0.                                                       *)
(***************************************************************************)
EXTENDS Integers, Sequences, FiniteSets, TLC

VARIABLES
  \* ---- FileStorage ----
  disk,            \* the file at the path: [exists, blocks]
  m_file,          \* the std::fstream: [open |-> filebuf is_open, fail |-> failbit]
  m_size,          \* FileStorage::m_size
  m_config,        \* FileStorage::m_config.m_extentSizeKB
  m_extentFiller,  \* FileStorage::m_extentFiller (a buffer of zero blocks)
  ret,             \* the last call: its arguments, results and the state it met
  written,         \* history: the buffer last written to each extent of the file
  created,         \* history: the config the file was created with
  \* ---- buffer pool and B+tree nodes ----
  pool,            \* the buffer pool: [pins, dirty, allocated]
  pages,           \* the bytes of each page, as the node stored in it
  nodes,           \* the BTNode handles of the caller
  nret             \* the last node or tree call: arguments, results, pool calls

storageVars ==
  <<disk, m_file, m_size, m_config, m_extentFiller, ret, written, created>>

treeVars == <<pool, pages, nodes, nret>>

vars == <<storageVars, treeVars>>

----------------------------------------------------------------------------
(* Bounds of the storage model *)

\* extentSizeKB given to create ranges over 1..MaxExtentKB
MaxExtentKB == 2
\* reserve is not taken when it would grow the file beyond MaxFileKB blocks
MaxFileKB == 8
\* reserve(n) is called with n in 1..MaxReserve
MaxReserve == 4
\* the callers' buffers are Buffer(v, .) for v in 1..MaxData
MaxData == 2
\* write is called with the extent ids 0..MaxWriteId and with size()
MaxWriteId == 3

\* bytes per KiB: getExtentSize multiplies m_extentSizeKB by it
KB == 1024

----------------------------------------------------------------------------
(* File contents *)

ZeroBlock == <<"zero", 0, 0>>
\* block 0 after create: the config record followed by zero bytes
ConfigBlock(k) == <<"cfg", k, 0>>
\* block i of a caller's buffer filled with pattern v
DataBlock(v, i) == <<"data", v, i>>

\* a caller's buffer of one extent (the tests size it from config())
Buffer(v, extentSizeKB) == [i \in 1..extentSizeKB |-> DataBlock(v, i)]

Max(a, b) == IF a >= b THEN a ELSE b

FileBytes(blocks) == Len(blocks) * KB

\* ostream::write of buf at byte position pos; a gap beyond the end of the
\* file reads as zero bytes
WriteAt(blocks, pos, buf) ==
  IF Len(buf) = 0 THEN blocks
  ELSE LET start  == pos \div KB
           newLen == Max(Len(blocks), start + Len(buf))
       IN [i \in 1..newLen |->
             IF i > start /\ i <= start + Len(buf) THEN buf[i - start]
             ELSE IF i <= Len(blocks) THEN blocks[i]
             ELSE ZeroBlock]

\* the sizeof(m_config) bytes at byte 0, as open reads them back
ConfigOf(blocks) ==
  IF Len(blocks) = 0 THEN 0
  ELSE IF blocks[1][1] = "zero" THEN 0
  ELSE blocks[1][2]

\* create without the write of the config record
WriteConfigSkipped(blocks, config) == blocks

\* ostream::write of the config record at byte 0
WriteConfig(blocks, config) ==
  IF Len(blocks) = 0 THEN <<ConfigBlock(config)>>
  ELSE [blocks EXCEPT ![1] = ConfigBlock(config)]

----------------------------------------------------------------------------
(* FileStorage helpers *)

getExtentSize(config) == config * KB

\* the division is undefined for extentSizeKB = 0, which no created file has
bytesToExtent(config, bytes) ==
  IF getExtentSize(config) = 0 THEN 0 ELSE bytes \div getExtentSize(config)

\* the product without the extent size: a position in KiB
extentToBytesNoSize(config, extent) == extent * KB

extentToBytes(config, extent) == extent * getExtentSize(config)

\* a filler that is resized without the zero byte
FillerNotZero(config) ==
  [i \in 1..(getExtentSize(config) \div KB) |-> DataBlock(0, i)]

\* m_extentFiller.resize(getExtentSize(),'\0')
Filler(config) == [i \in 1..(getExtentSize(config) \div KB) |-> ZeroBlock]

\* extent e of a file of extentSizeKB-block extents, as a sequence of blocks
ExtentAt(blocks, extentSizeKB, e) ==
  SubSeq(blocks, e * extentSizeKB + 1, (e + 1) * extentSizeKB)

\* a seek on the stream: does nothing on a failed stream, fails when no file
\* is open
SeekFails(file) == file.fail \/ ~file.open

\* the object and the file as a call meets them
Pre == [file |-> m_file, size |-> m_size, config |-> m_config, disk |-> disk]

\* the record of a call: arg is numExtents, the extent id or extentSizeKB;
\* extent is reserve's result; data is the buffer written or read
Ret(op, code, arg, extent, data) ==
  [op |-> op, code |-> code, arg |-> arg, overwrite |-> FALSE,
   extent |-> extent, data |-> data, pre |-> Pre]

NoWrites == [e \in 0..(MaxFileKB + 1) |-> <<>>]

\* no pool, no page and no node: the tree side while the storage runs
NoTree ==
  /\ pool = [pins |-> <<>>, dirty |-> <<>>, allocated |-> {}]
  /\ pages = <<>>
  /\ nodes = <<>>
  /\ nret = [op |-> "none"]

\* a store nothing is called on: the storage side while the tree runs
NoStorage ==
  /\ disk = [exists |-> FALSE, blocks |-> <<>>]
  /\ m_file = [open |-> FALSE, fail |-> FALSE]
  /\ m_size = 0
  /\ m_config = 0
  /\ m_extentFiller = <<>>
  /\ written = NoWrites
  /\ created = 0
  /\ ret = [op |-> "none"]

----------------------------------------------------------------------------
(* FileStorage operations.  Failures of the underlying device (a full disk,
   an unreadable sector) are not modelled: a write or read of an open file
   at a position the file can hold succeeds. *)

\* reserve: the offset from the end of the file where the filler is written
ReserveOffsetNoMinus(config, numExtents) == extentToBytes(config, numExtents)

ReserveOffset(config, numExtents) == extentToBytes(config, numExtents - 1)

\* numExtents - 1 on the uint32_t argument: for numExtents = 0 it is
\* 2^32 - 1, and the seek goes 2^32 - 1 extents beyond the end of the file
WrapsAround(numExtents) == numExtents - 1 < 0

\* FileStorage::reserve as a function of the object and the file: create
\* calls it too.  A write 2^32 - 1 extents beyond the end is beyond the
\* largest file of the model (and of a file system whose files end before
\* it): the stream fails, after extent was assigned
reserve(file, blocks, size, config, filler, numExtents) ==
  IF SeekFails(file)
  THEN [file |-> [file EXCEPT !.fail = TRUE], blocks |-> blocks, size |-> size,
        code |-> "E_STORAGE_CRITICAL_ERROR", extent |-> 0]
  ELSE IF WrapsAround(numExtents)
  THEN [file |-> [file EXCEPT !.fail = TRUE], blocks |-> blocks, size |-> size,
        code |-> "E_STORAGE_OUT_OF_BOUNDS_WRITE",
        extent |-> bytesToExtent(config, FileBytes(blocks))]
  ELSE LET pos   == FileBytes(blocks) + ReserveOffset(config, numExtents)
           tellp == pos + FileBytes(filler)
       IN [file |-> file,
           blocks |-> WriteAt(blocks, pos, filler),
           size |-> bytesToExtent(config, tellp),
           code |-> "E_NO_ERROR",
           extent |-> bytesToExtent(config, FileBytes(blocks))]

\* the bounds check of read and write
OutOfBoundsOffByOne(extent, size) == extent = 0 \/ extent > size

OutOfBounds(extent, size) == extent = 0 \/ extent >= size

\* create: the test that refuses to overwrite an existing path
CreateRefusesNever(overwrite, exists) == FALSE

CreateRefuses(overwrite, exists) == ~overwrite /\ exists

\* open: the size in whole extents, from the position of the end of the file
OpenSize(config, blocks) == bytesToExtent(config, FileBytes(blocks))

open ==
  IF m_file.open \/ ~disk.exists
  THEN \* filebuf::open fails on an open stream and on a missing file
       /\ m_file' = [m_file EXCEPT !.fail = TRUE]
       /\ ret' = Ret("open", "E_STORAGE_INVALID_PATH", 0, 0, <<>>)
       /\ UNCHANGED <<disk, m_size, m_config, m_extentFiller, written, created>>
  ELSE LET config == ConfigOf(disk.blocks)
       IN /\ m_file' = [open |-> TRUE, fail |-> FALSE]
          /\ m_config' = config
          /\ m_extentFiller' = Filler(config)
          /\ m_size' = OpenSize(config, disk.blocks)
          /\ ret' = Ret("open", "E_NO_ERROR", 0, 0, <<>>)
          /\ UNCHANGED <<disk, written, created>>

create(config, overwrite) ==
  IF CreateRefuses(overwrite, disk.exists)
  THEN /\ ret' = [Ret("create", "E_STORAGE_PATH_ALREADY_EXISTS", config, 0, <<>>)
                    EXCEPT !.overwrite = overwrite]
       /\ UNCHANGED <<disk, m_file, m_size, m_config, m_extentFiller, written, created>>
  ELSE IF m_file.open
  THEN \* filebuf::open fails on an open stream, before it truncates anything
       /\ m_file' = [m_file EXCEPT !.fail = TRUE]
       /\ ret' = [Ret("create", "E_STORAGE_INVALID_PATH", config, 0, <<>>)
                    EXCEPT !.overwrite = overwrite]
       /\ UNCHANGED <<disk, m_size, m_config, m_extentFiller, written, created>>
  ELSE LET r == reserve([open |-> TRUE, fail |-> FALSE], <<>>, m_size, config,
                        Filler(config), 1)
       IN /\ m_file' = r.file
          /\ m_config' = config
          /\ m_extentFiller' = Filler(config)
          /\ m_size' = r.size
          /\ disk' = [exists |-> TRUE, blocks |-> WriteConfig(r.blocks, config)]
          /\ written' = NoWrites
          /\ created' = config
          /\ ret' = [Ret("create", "E_NO_ERROR", config, 0, <<>>)
                       EXCEPT !.overwrite = overwrite]

close ==
  IF ~m_file.fail
  THEN \* fstream::close sets failbit when no file is open
       /\ m_file' = IF m_file.open THEN [m_file EXCEPT !.open = FALSE]
                                   ELSE [m_file EXCEPT !.fail = TRUE]
       /\ ret' = Ret("close", "E_NO_ERROR", 0, 0, <<>>)
       /\ UNCHANGED <<disk, m_size, m_config, m_extentFiller, written, created>>
  ELSE /\ ret' = Ret("close", "E_STORAGE_NOT_OPEN", 0, 0, <<>>)
       /\ UNCHANGED <<disk, m_file, m_size, m_config, m_extentFiller, written, created>>

Reserve(numExtents) ==
  LET r == reserve(m_file, disk.blocks, m_size, m_config, m_extentFiller,
                   numExtents)
  IN /\ Len(r.blocks) <= MaxFileKB
     /\ m_file' = r.file
     /\ m_size' = r.size
     /\ disk' = [disk EXCEPT !.blocks = r.blocks]
     /\ ret' = Ret("reserve", r.code, numExtents, r.extent, <<>>)
     /\ UNCHANGED <<m_config, m_extentFiller, written, created>>

read(extent) ==
  IF OutOfBounds(extent, m_size)
  THEN /\ ret' = Ret("read", "E_STORAGE_OUT_OF_BOUNDS_EXTENT", extent, 0, <<>>)
       /\ UNCHANGED <<disk, m_file, m_size, m_config, m_extentFiller, written, created>>
  ELSE IF SeekFails(m_file)
  THEN /\ m_file' = [m_file EXCEPT !.fail = TRUE]
       /\ ret' = Ret("read", "E_STORAGE_OUT_OF_BOUNDS_EXTENT", extent, 0, <<>>)
       /\ UNCHANGED <<disk, m_size, m_config, m_extentFiller, written, created>>
  ELSE LET pos   == extentToBytes(m_config, extent)
           first == pos \div KB
           n     == getExtentSize(m_config) \div KB
       IN IF pos + getExtentSize(m_config) > FileBytes(disk.blocks)
          THEN \* a short read sets failbit
               /\ m_file' = [m_file EXCEPT !.fail = TRUE]
               /\ ret' = Ret("read", "E_STORAGE_OUT_OF_BOUNDS_READ", extent, 0, <<>>)
               /\ UNCHANGED <<disk, m_size, m_config, m_extentFiller, written, created>>
          ELSE /\ ret' = Ret("read", "E_NO_ERROR", extent, 0,
                             SubSeq(disk.blocks, first + 1, first + n))
               /\ UNCHANGED <<disk, m_file, m_size, m_config, m_extentFiller,
                              written, created>>

write(data, extent) ==
  IF OutOfBounds(extent, m_size)
  THEN /\ ret' = Ret("write", "E_STORAGE_OUT_OF_BOUNDS_EXTENT", extent, 0, data)
       /\ UNCHANGED <<disk, m_file, m_size, m_config, m_extentFiller, written, created>>
  ELSE IF SeekFails(m_file)
  THEN /\ m_file' = [m_file EXCEPT !.fail = TRUE]
       /\ ret' = Ret("write", "E_STORAGE_OUT_OF_BOUNDS_EXTENT", extent, 0, data)
       /\ UNCHANGED <<disk, m_size, m_config, m_extentFiller, written, created>>
  ELSE /\ disk' = [disk EXCEPT !.blocks =
                     WriteAt(@, extentToBytes(m_config, extent), data)]
       /\ written' = [written EXCEPT ![extent] = data]
       /\ ret' = Ret("write", "E_NO_ERROR", extent, 0, data)
       /\ UNCHANGED <<m_file, m_size, m_config, m_extentFiller, created>>

----------------------------------------------------------------------------
(* The storage specification: one FileStorage object and one path *)

\* the extent ids read is called with
ExtentIds == 0..(MaxFileKB + 1)

\* the extent ids write is called with: the first ones and the first one
\* out of bounds
WriteIds == (0..MaxWriteId) \cup {m_size}

\* the buffers write is called with: one extent of the open store's config
Buffers == {Buffer(v, m_config) : v \in 1..MaxData}

\* The constructor sets m_flags only: m_size and m_config hold whatever the
\* object's memory held, the stream is good and has no file.
InitStorage ==
  /\ disk = [exists |-> FALSE, blocks |-> <<>>]
  /\ m_file = [open |-> FALSE, fail |-> FALSE]
  /\ m_size \in 0..MaxExtentKB
  /\ m_config \in 0..MaxExtentKB
  /\ m_extentFiller = <<>>
  /\ written = NoWrites
  /\ created = 0
  /\ ret = Ret("new", "E_NO_ERROR", 0, 0, <<>>)
  /\ NoTree

Open == open /\ UNCHANGED treeVars
Create == /\ \E config \in 1..MaxExtentKB, overwrite \in BOOLEAN :
                create(config, overwrite)
          /\ UNCHANGED treeVars
Close == close /\ UNCHANGED treeVars
ReserveCall == (\E n \in 1..MaxReserve : Reserve(n)) /\ UNCHANGED treeVars
Read == (\E e \in ExtentIds : read(e)) /\ UNCHANGED treeVars
Write == /\ \E e \in WriteIds : \E data \in Buffers : write(data, e)
         /\ UNCHANGED treeVars

NextStorage == Open \/ Create \/ Close \/ ReserveCall \/ Read \/ Write

\* reserve(0)
ReserveNone == Reserve(0) /\ UNCHANGED treeVars

NextReserveNone == NextStorage \/ ReserveNone

\* the callers of SpecStorage and one that reserves no extent
SpecReserveNone == InitStorage /\ [][NextReserveNone]_vars

SpecStorage == InitStorage /\ [][NextStorage]_vars

----------------------------------------------------------------------------
(* Claims about FileStorage, checked under SpecStorage *)

OpenAndGood(file) == file.open /\ ~file.fail

\* C1: a successful reserve(n), n >= 1, on an open store returns size() as
\* it was before the call and leaves size() exactly n larger; create leaves
\* size() = 1, so that the first reserve(1) after it returns 1.
C1_ReserveReturnsOldSize ==
  /\ (ret.op = "reserve" /\ ret.code = "E_NO_ERROR" /\ ret.arg >= 1) =>
        /\ ret.extent = ret.pre.size
        /\ m_size = ret.pre.size + ret.arg
  /\ (ret.op = "reserve" /\ OpenAndGood(ret.pre.file)) =>
        ret.code = "E_NO_ERROR"
  /\ (ret.op = "create" /\ ret.code = "E_NO_ERROR") => m_size = 1

\* the last call of reserve(1), reserve(1), reserve(4), reserve(1) on a store
\* reopened with only its header: extent 7 is returned and size() is 8
C1_Witness ==
  /\ ret.op = "reserve" /\ ret.code = "E_NO_ERROR" /\ ret.arg = 1
  /\ ret.extent = 7 /\ m_size = 8 /\ ret.pre.size = 7
  /\ OpenAndGood(m_file)

\* C2: on an open store, read and write of extent 0 or of an extent
\* >= size() return E_STORAGE_OUT_OF_BOUNDS_EXTENT and change neither the
\* file, nor size(), nor config().
C2_OutOfBoundsRejected ==
  (/\ ret.op \in {"read", "write"}
   /\ ret.pre.file.open
   /\ (ret.arg = 0 \/ ret.arg >= ret.pre.size)) =>
     /\ ret.code = "E_STORAGE_OUT_OF_BOUNDS_EXTENT"
     /\ disk = ret.pre.disk
     /\ m_size = ret.pre.size
     /\ m_config = ret.pre.config

\* a write of a full buffer to extent size() of an open store that holds
\* written extents, refused
C2_Witness ==
  /\ ret.op = "write" /\ OpenAndGood(ret.pre.file)
  /\ ret.arg = ret.pre.size /\ ret.pre.size >= 3
  /\ Len(ret.data) = 2
  /\ written[1] # <<>>
  /\ ret.code = "E_STORAGE_OUT_OF_BOUNDS_EXTENT"

\* the extents of the file other than e, before and after a call
OtherExtentsKept(before, after, extentSizeKB, e) ==
  /\ Len(after) = Len(before)
  /\ \A x \in 0..((Len(before) \div extentSizeKB) - 1) :
        x # e => ExtentAt(after, extentSizeKB, x) = ExtentAt(before, extentSizeKB, x)

\* C3: a write to an extent e, 1 <= e < size(), of an open store succeeds
\* and changes no other extent; every successful read of an extent returns
\* the buffer last written to it, also after close and open.
C3_ReadReturnsLastWrite ==
  /\ (/\ ret.op = "write" /\ OpenAndGood(ret.pre.file)
      /\ ret.arg >= 1 /\ ret.arg < ret.pre.size) =>
        /\ ret.code = "E_NO_ERROR"
        /\ ExtentAt(disk.blocks, m_config, ret.arg) = ret.data
        /\ OtherExtentsKept(ret.pre.disk.blocks, disk.blocks, m_config, ret.arg)
  /\ (/\ ret.op = "read" /\ OpenAndGood(ret.pre.file)
      /\ ret.arg >= 1 /\ ret.arg < ret.pre.size) =>
        /\ ret.code = "E_NO_ERROR"
        /\ written[ret.arg] # <<>> => ret.data = written[ret.arg]

\* extent 2 of a 2 KiB-extent store is read back after a close and an open,
\* with its neighbour holding another buffer
C3_Witness ==
  /\ ret.op = "read" /\ ret.code = "E_NO_ERROR" /\ ret.arg = 2
  /\ m_config = 2
  /\ ret.data = Buffer(2, 2)
  /\ written[1] = Buffer(1, 2)
  /\ ret.pre.file.open

\* C4: an open that succeeds finds config() equal to the config given to
\* the create that made the file and size() equal to what it was before the
\* close, whatever was reserved and written in between.
C4_ReopenKeepsConfigAndSize ==
  (ret.op = "open" /\ ret.code = "E_NO_ERROR") =>
     /\ m_config = created
     /\ m_size = ret.pre.size
     /\ m_size * m_config = Len(disk.blocks)

\* a 2 KiB-extent store reopened with three extents, one of them written
C4_Witness ==
  /\ ret.op = "open" /\ ret.code = "E_NO_ERROR"
  /\ created = 2 /\ m_size = 3
  /\ written[2] # <<>>

\* C5 as stated: create without overwrite on an existing path returns
\* E_STORAGE_PATH_ALREADY_EXISTS, leaves the file as it is and the store
\* without an open file.
C5_Original ==
  (ret.op = "create" /\ ~ret.overwrite /\ ret.pre.disk.exists) =>
     /\ ret.code = "E_STORAGE_PATH_ALREADY_EXISTS"
     /\ disk = ret.pre.disk
     /\ ~m_file.open

\* C5: create without overwrite on an existing path returns
\* E_STORAGE_PATH_ALREADY_EXISTS, leaves the file as it is and the stream as
\* it was: a store with no file open has none afterwards, a store that had
\* the file open keeps it open.
C5_CreateRefusedKeepsFile ==
  (ret.op = "create" /\ ~ret.overwrite /\ ret.pre.disk.exists) =>
     /\ ret.code = "E_STORAGE_PATH_ALREADY_EXISTS"
     /\ disk = ret.pre.disk
     /\ m_file = ret.pre.file
     /\ m_size = ret.pre.size
     /\ m_config = ret.pre.config

\* create without overwrite, refused on a closed store whose file holds a
\* written extent
C5_Witness ==
  /\ ret.op = "create" /\ ~ret.overwrite
  /\ ret.code = "E_STORAGE_PATH_ALREADY_EXISTS"
  /\ ~m_file.open
  /\ Len(disk.blocks) >= 4
  /\ written[1] # <<>>
  /\ ret.arg # created

\* C6: close returns E_STORAGE_NOT_OPEN exactly when the store has no file
\* open, and E_NO_ERROR on an open store.
C6_CloseReportsNotOpen ==
  ret.op = "close" =>
    ret.code = IF ret.pre.file.open THEN "E_NO_ERROR" ELSE "E_STORAGE_NOT_OPEN"

\* C7: reserve, read and write on a store with no file open return
\* E_STORAGE_NOT_OPEN.
C7_NotOpenReported ==
  (ret.op \in {"reserve", "read", "write"} /\ ~ret.pre.file.open) =>
    ret.code = "E_STORAGE_NOT_OPEN"

\* C23: a successful read of an extent that was reserved and not written
\* since returns an extent of zero bytes, for each extent of a reserve(n)
\* and also after close and open.
C23_ReservedExtentsReadZero ==
  (ret.op = "read" /\ ret.code = "E_NO_ERROR" /\ written[ret.arg] = <<>>) =>
    /\ Len(ret.data) = m_config
    /\ \A i \in 1..Len(ret.data) : ret.data[i] = ZeroBlock

\* extent 1 of the four extents of a store of 2 KiB extents is read, none of
\* them written: the file holds one filler only, at its end
C23_Witness ==
  /\ ret.op = "read" /\ ret.code = "E_NO_ERROR" /\ ret.arg = 1
  /\ m_config = 2 /\ m_size = 4
  /\ \A e \in 1..3 : written[e] = <<>>
  /\ ret.data = <<ZeroBlock, ZeroBlock>>

\* C22: reserve(0) on an open store succeeds, leaves size() and the file as
\* they were, and returns the id the next reserved extent will get.
\* Checked under SpecReserveNone.
C22_ReserveOfNoExtent ==
  (ret.op = "reserve" /\ ret.arg = 0 /\ OpenAndGood(ret.pre.file)) =>
    /\ ret.code = "E_NO_ERROR"
    /\ m_size = ret.pre.size
    /\ disk.blocks = ret.pre.disk.blocks
    /\ ret.extent = ret.pre.size

----------------------------------------------------------------------------
(* The buffer pool.  Its code is not among the sources: it is modelled from
   the contract the tree code consumes (pin, unpin, alloc, release,
   setPageDirty, getPageSize, each returning an ErrorCode).  Whether alloc,
   pin, setPageDirty and release succeed is an input of the call; unpin drops
   one pin and fails only on a page that holds none. *)

\* bounds of the node model
\* the pool's page size in bytes
PageSize == 96
\* the pool holds the pages 1..MaxPages
MaxPages == 1

\* the sentinel page id
INVALID_PAGE_ID == 0
\* sizeof(BTNodePageHeader), sizeof(size_t) and sizeof(pageId_t) of an LP64
\* build
SizeofHeader == 48
SizeofSizeT == 8
SizeofPageId == 8

\* the instantiations btree_*<K,V> of the callers: <<sizeof(K), sizeof(V)>>
Instantiations == {<<4, 4>>, <<4, 8>>, <<8, 8>>}

isError(err) == err # "E_NO_ERROR"

PoolResult(pl, code, pId) == [pool |-> pl, code |-> code, pId |-> pId]

PoolAlloc(pl, okay) ==
  LET free == (DOMAIN pl.pins) \ pl.allocated
  IN IF okay /\ free # {}
     THEN LET pId == CHOOSE x \in free : \A y \in free : x <= y
          IN PoolResult([pl EXCEPT !.pins[pId] = @ + 1,
                                   !.dirty[pId] = FALSE,
                                   !.allocated = @ \cup {pId}],
                        "E_NO_ERROR", pId)
     ELSE PoolResult(pl, "E_BUFPOOL_ERROR", INVALID_PAGE_ID)

PoolPin(pl, pId, okay) ==
  IF okay /\ pId \in pl.allocated
  THEN PoolResult([pl EXCEPT !.pins[pId] = @ + 1], "E_NO_ERROR", pId)
  ELSE PoolResult(pl, "E_BUFPOOL_ERROR", pId)

\* unpin that reports success and leaves the pin count as it is
PoolUnpinKept(pl, pId) == PoolResult(pl, "E_NO_ERROR", pId)

PoolUnpin(pl, pId) ==
  IF pId \in DOMAIN pl.pins /\ pl.pins[pId] > 0
  THEN PoolResult([pl EXCEPT !.pins[pId] = @ - 1], "E_NO_ERROR", pId)
  ELSE PoolResult(pl, "E_BUFPOOL_ERROR", pId)

PoolSetPageDirty(pl, pId, okay) ==
  IF okay /\ pId \in pl.allocated
  THEN PoolResult([pl EXCEPT !.dirty[pId] = TRUE], "E_NO_ERROR", pId)
  ELSE PoolResult(pl, "E_BUFPOOL_ERROR", pId)

PoolRelease(pl, pId, okay) ==
  IF okay /\ pId \in pl.allocated
  THEN PoolResult([pl EXCEPT !.allocated = @ \ {pId}], "E_NO_ERROR", pId)
  ELSE PoolResult(pl, "E_BUFPOOL_ERROR", pId)

\* one entry of the log of pool calls a node operation makes
Call(name, r) == <<name, r.pId, r.code>>

----------------------------------------------------------------------------
(* Node layout and lifecycle (btree_impl.h) *)

\* a page no node was created in
RawPage ==
  [m_type |-> "RAW", m_maxNumElements |-> 0, m_numElements |-> 0,
   m_keySize |-> 0, m_keyStart |-> 0, m_elementSize |-> 0,
   m_elementStart |-> 0, keys |-> <<>>, elements |-> <<>>]

\* a BTNode no page is attached to
NullNode ==
  [pinned |-> FALSE, pId |-> INVALID_PAGE_ID, m_dirty |-> FALSE,
   m_next |-> INVALID_PAGE_ID]

sizeOfElement(type, vSize) ==
  IF type = "E_INTERNAL" THEN SizeofPageId ELSE vSize

\* create_node: sizeof(sizeOfElement) is the size of a size_t
availableSize(pageSize, kSize) ==
  pageSize - SizeofHeader - (kSize + SizeofSizeT)

maxNumElements(pageSize, kSize) ==
  availableSize(pageSize, kSize) \div (kSize + SizeofSizeT)

keyStart(kSize) == Max(SizeofHeader, kSize)

keyEnd(pageSize, kSize) ==
  keyStart(kSize) + kSize * maxNumElements(pageSize, kSize)

elementStart(pageSize, kSize) ==
  LET e == keyEnd(pageSize, kSize)
  IN e - (e % SizeofSizeT)
       + SizeofSizeT * (IF e % SizeofSizeT # 0 THEN 1 ELSE 0)

NodeResult(pl, pgs, code, node, calls) ==
  [pool |-> pl, pages |-> pgs, code |-> code, node |-> node, calls |-> calls]

\* btree_create_node<K,V>.  stale is what the child slots of the allocated
\* page hold: the loop that sets them runs to m_numElements, which is 0.
btree_create_node(pl, pgs, type, kSize, vSize, old, allocOk, stale) ==
  LET a == PoolAlloc(pl, allocOk)
      m == maxNumElements(PageSize, kSize)
  IN IF isError(a.code)
     THEN NodeResult(pl, pgs, a.code, old, <<Call("alloc", a)>>)
     ELSE NodeResult(
            a.pool,
            [pgs EXCEPT ![a.pId] =
               [m_type |-> type,
                m_maxNumElements |-> m,
                m_numElements |-> 0,
                m_keySize |-> kSize,
                m_keyStart |-> keyStart(kSize),
                m_elementSize |-> sizeOfElement(type, vSize),
                m_elementStart |-> elementStart(PageSize, kSize),
                keys |-> [i \in 0..(m - 1) |-> 0],
                elements |-> [i \in 0..(m - 1) |->
                                IF type = "E_INTERNAL" THEN stale ELSE 0]]],
            "E_NO_ERROR",
            [pinned |-> TRUE, pId |-> a.pId, m_dirty |-> FALSE,
             m_next |-> IF type = "E_LEAF" THEN INVALID_PAGE_ID
                                           ELSE old.m_next],
            <<Call("alloc", a)>>)

\* load_node: the test of the stored sizes against the caller's K and V
Corrupted(page, kSize, vSize) ==
  \/ page.m_keySize # kSize
  \/ page.m_elementSize # sizeOfElement(page.m_type, vSize)

\* load_node: the unpin on the corrupted-page exit (its result is dropped)
UnpinCorruptedSkipped(pl, pId) == PoolResult(pl, "E_NO_ERROR", pId)

UnpinCorrupted(pl, pId) == PoolUnpin(pl, pId)

\* btree_load_node<K,V>: m_next of the handle is not assigned
btree_load_node(pl, pgs, pId, kSize, vSize, old, pinOk) ==
  LET a == PoolPin(pl, pId, pinOk)
  IN IF isError(a.code)
     THEN NodeResult(pl, pgs, a.code, old, <<Call("pin", a)>>)
     ELSE IF Corrupted(pgs[pId], kSize, vSize)
     THEN LET u == UnpinCorrupted(a.pool, pId)
          IN NodeResult(u.pool, pgs, "E_BTREE_CORRUPTED_PAGE", old,
                        <<Call("pin", a), Call("unpin", u)>>)
     ELSE NodeResult(a.pool, pgs, "E_NO_ERROR",
                     [pinned |-> TRUE, pId |-> pId, m_dirty |-> FALSE,
                      m_next |-> old.m_next],
                     <<Call("pin", a)>>)

\* btree_unload_node with the unpin issued before the setPageDirty
btree_unload_nodeUnpinFirst(pl, pgs, node, dirtyOk) ==
  LET u == PoolUnpin(pl, node.pId)
      d == IF node.m_dirty THEN PoolSetPageDirty(u.pool, node.pId, dirtyOk)
                            ELSE PoolResult(u.pool, "E_NO_ERROR", node.pId)
      dcalls == IF node.m_dirty THEN <<Call("setPageDirty", d)>> ELSE <<>>
  IN NodeResult(d.pool, pgs, IF isError(d.code) THEN d.code ELSE u.code,
                [node EXCEPT !.pinned = FALSE],
                <<Call("unpin", u)>> \o dcalls)

\* btree_unload_node: on the setPageDirty error exit the handle keeps its
\* pointers and the page its pin
btree_unload_node(pl, pgs, node, dirtyOk) ==
  LET d == IF node.m_dirty THEN PoolSetPageDirty(pl, node.pId, dirtyOk)
                            ELSE PoolResult(pl, "E_NO_ERROR", node.pId)
      dcalls == IF node.m_dirty THEN <<Call("setPageDirty", d)>> ELSE <<>>
  IN IF isError(d.code)
     THEN NodeResult(pl, pgs, d.code, node, dcalls)
     ELSE LET u == PoolUnpin(d.pool, node.pId)
          IN NodeResult(u.pool, pgs, u.code, [node EXCEPT !.pinned = FALSE],
                        dcalls \o <<Call("unpin", u)>>)

\* the bytes of a released page are not the tree's any more: what the next
\* alloc finds in it is an input of create_node
Released(pgs, r) ==
  IF isError(r.code) THEN pgs ELSE [pgs EXCEPT ![r.pId] = RawPage]

\* btree_destroy_node
btree_destroy_node(pl, pgs, node, dirtyOk, releaseOk) ==
  LET d == IF node.m_dirty THEN PoolSetPageDirty(pl, node.pId, dirtyOk)
                            ELSE PoolResult(pl, "E_NO_ERROR", node.pId)
      dcalls == IF node.m_dirty THEN <<Call("setPageDirty", d)>> ELSE <<>>
  IN IF isError(d.code)
     THEN NodeResult(pl, pgs, d.code, node, dcalls)
     ELSE LET u == PoolUnpin(d.pool, node.pId)
          IN IF isError(u.code)
             THEN NodeResult(u.pool, pgs, u.code, node,
                             dcalls \o <<Call("unpin", u)>>)
             ELSE LET r == PoolRelease(u.pool, node.pId, releaseOk)
                  IN NodeResult(r.pool, Released(pgs, r), r.code,
                                [node EXCEPT !.pinned = FALSE],
                                dcalls \o <<Call("unpin", u), Call("release", r)>>)

----------------------------------------------------------------------------
(* The node specification: a caller creating, loading, changing, unloading
   and destroying nodes through two BTNode variables *)

Handles == {"a", "b"}

\* what the child slots of a page, or the m_next of a handle, hold before
\* anything is assigned to them
StaleIds == {INVALID_PAGE_ID, 1}

NodeTypes == {"E_INTERNAL", "E_LEAF"}

\* the handle a node call leaves to the caller: one whose page is gone is
\* not read again before a create or a load assigns its m_handler and
\* m_dirty, so only its m_next is kept
Handle(node) ==
  IF node.pinned THEN node ELSE [NullNode EXCEPT !.m_next = node.m_next]

\* the pins of page pId, 0 for a page the pool does not hold
PinsOf(pl, pId) == IF pId \in DOMAIN pl.pins THEN pl.pins[pId] ELSE 0

\* the record of a node call: the pool calls it made, the pins the page held
\* and the dirty flag the node had when it was made
NRet(op, code, h, pId, kSize, vSize, calls) ==
  [op |-> op, code |-> code, h |-> h, pId |-> pId, kSize |-> kSize,
   vSize |-> vSize, key |-> 0, value |-> 0, calls |-> calls,
   prePins |-> PinsOf(pool, pId), preDirty |-> nodes[h].m_dirty]

InitNode ==
  /\ pool = [pins |-> [p \in 1..MaxPages |-> 0],
             dirty |-> [p \in 1..MaxPages |-> FALSE],
             allocated |-> {}]
  /\ pages = [p \in 1..MaxPages |-> RawPage]
  /\ nodes = [h \in Handles |-> NullNode]
  /\ nret = [op |-> "new", code |-> "E_NO_ERROR", h |-> "a", pId |-> 0,
             kSize |-> 0, vSize |-> 0, key |-> 0, value |-> 0, calls |-> <<>>,
             prePins |-> 0, preDirty |-> FALSE]
  /\ NoStorage

CreateNode ==
  /\ \E h \in Handles, type \in NodeTypes, kv \in Instantiations,
        allocOk \in BOOLEAN, stale \in StaleIds :
       /\ ~nodes[h].pinned
       /\ LET r == btree_create_node(pool, pages, type, kv[1], kv[2],
                                     nodes[h], allocOk, stale)
          IN /\ pool' = r.pool
             /\ pages' = r.pages
             /\ nodes' = [nodes EXCEPT ![h] = Handle(r.node)]
             /\ nret' = NRet("create", r.code, h, r.node.pId, kv[1], kv[2],
                             r.calls)
  /\ UNCHANGED storageVars

LoadNode ==
  /\ \E h \in Handles, pId \in DOMAIN pages, kv \in Instantiations,
        pinOk \in BOOLEAN :
       /\ ~nodes[h].pinned
       /\ pId # INVALID_PAGE_ID
       /\ LET r == btree_load_node(pool, pages, pId, kv[1], kv[2], nodes[h],
                                   pinOk)
          IN /\ pool' = r.pool
             /\ pages' = r.pages
             /\ nodes' = [nodes EXCEPT ![h] = Handle(r.node)]
             /\ nret' = NRet("load", r.code, h, pId, kv[1], kv[2], r.calls)
  /\ UNCHANGED storageVars

\* a tree operation changes a pinned node and sets its dirty flag
MutateNode ==
  /\ \E h \in Handles :
       /\ nodes[h].pinned
       /\ ~nodes[h].m_dirty
       /\ nodes' = [nodes EXCEPT ![h].m_dirty = TRUE]
       /\ nret' = NRet("mutate", "E_NO_ERROR", h, nodes[h].pId, 0, 0, <<>>)
       /\ UNCHANGED <<pool, pages>>
  /\ UNCHANGED storageVars

UnloadNode ==
  /\ \E h \in Handles, dirtyOk \in BOOLEAN :
       /\ nodes[h].pinned
       /\ LET r == btree_unload_node(pool, pages, nodes[h], dirtyOk)
          IN /\ pool' = r.pool
             /\ pages' = r.pages
             /\ nodes' = [nodes EXCEPT ![h] = Handle(r.node)]
             /\ nret' = NRet("unload", r.code, h, nodes[h].pId, 0, 0, r.calls)
  /\ UNCHANGED storageVars

DestroyNode ==
  /\ \E h \in Handles, dirtyOk \in BOOLEAN, releaseOk \in BOOLEAN :
       /\ nodes[h].pinned
       /\ LET r == btree_destroy_node(pool, pages, nodes[h], dirtyOk, releaseOk)
          IN /\ pool' = r.pool
             /\ pages' = r.pages
             /\ nodes' = [nodes EXCEPT ![h] = Handle(r.node)]
             /\ nret' = NRet("destroy", r.code, h, nodes[h].pId, 0, 0, r.calls)
  /\ UNCHANGED storageVars

NextNode == CreateNode \/ LoadNode \/ MutateNode \/ UnloadNode \/ DestroyNode

SpecNode == InitNode /\ [][NextNode]_vars

----------------------------------------------------------------------------
(* Claims about the node lifecycle, checked under SpecNode *)

\* C8: a node passed to btree_unload_node or btree_destroy_node has its pin
\* dropped on every exit path, whatever error code is returned: the page's
\* pin count is one less than when the call was made.
C8_UnloadDropsThePin ==
  nret.op \in {"unload", "destroy"} =>
    pool.pins[nret.pId] = nret.prePins - 1

\* the page's header disagrees with the sizes of the caller's K and V
SizesMismatch(page, kSize, vSize) ==
  \/ page.m_keySize # kSize
  \/ page.m_type = "E_INTERNAL" /\ page.m_elementSize # SizeofPageId
  \/ page.m_type = "E_LEAF" /\ page.m_elementSize # vSize

\* C9: btree_load_node of a page whose stored keySize or elementSize differs
\* from the caller's returns E_BTREE_CORRUPTED_PAGE after one pin and one
\* unpin, leaving the pin count as it was; when the pin fails its error is
\* returned and no unpin is issued.
C9_LoadOfCorruptedPageUnpins ==
  nret.op = "load" =>
    LET first == nret.calls[1]
    IN /\ first[1] = "pin" /\ first[2] = nret.pId
       /\ isError(first[3]) =>
            /\ nret.code = first[3]
            /\ Len(nret.calls) = 1
            /\ pool.pins[nret.pId] = nret.prePins
            /\ ~nodes[nret.h].pinned
       /\ (~isError(first[3])
             /\ SizesMismatch(pages[nret.pId], nret.kSize, nret.vSize)) =>
            /\ nret.code = "E_BTREE_CORRUPTED_PAGE"
            /\ Len(nret.calls) = 2
            /\ nret.calls[2] = <<"unpin", nret.pId, "E_NO_ERROR">>
            /\ pool.pins[nret.pId] = nret.prePins
            /\ ~nodes[nret.h].pinned
       /\ (~isError(first[3])
             /\ ~SizesMismatch(pages[nret.pId], nret.kSize, nret.vSize)) =>
            /\ nret.code = "E_NO_ERROR"
            /\ pool.pins[nret.pId] = nret.prePins + 1
            /\ nodes[nret.h].pinned /\ nodes[nret.h].pId = nret.pId

\* a leaf page created for 4-byte values, pinned by another handle, is
\* loaded for 8-byte values of the same key size
C9_Witness ==
  /\ nret.op = "load" /\ nret.code = "E_BTREE_CORRUPTED_PAGE"
  /\ pages[nret.pId].m_type = "E_LEAF"
  /\ pages[nret.pId].m_keySize = nret.kSize
  /\ pages[nret.pId].m_elementSize = 4 /\ nret.vSize = 8
  /\ nret.prePins = 1
  /\ pool.pins[nret.pId] = 1

\* C16: after a successful create of an internal node every child slot of
\* the page holds INVALID_PAGE_ID, and after a successful create of a leaf
\* the node's m_next is INVALID_PAGE_ID.
C16_CreateSetsTheSentinels ==
  (nret.op = "create" /\ nret.code = "E_NO_ERROR") =>
    LET page == pages[nret.pId]
    IN /\ page.m_type = "E_INTERNAL" =>
            \A i \in 0..(page.m_maxNumElements - 1) :
              page.elements[i] = INVALID_PAGE_ID
       /\ page.m_type = "E_LEAF" =>
            nodes[nret.h].m_next = INVALID_PAGE_ID

\* the names of the pool calls of the last node call, in order
CallNames == [i \in 1..Len(nret.calls) |-> nret.calls[i][1]]

\* the pool calls unload makes up to the unpin, for a node whose dirty flag
\* was dirty: setPageDirty first if dirty, the unpin unless that failed
MarkThenUnpin(dirty) ==
  IF ~dirty THEN <<"unpin">>
  ELSE IF isError(nret.calls[1][3]) THEN <<"setPageDirty">>
  ELSE <<"setPageDirty", "unpin">>

\* C19: unload calls setPageDirty exactly when the node is dirty, before the
\* unpin and while the page holds the node's pin; destroy calls setPageDirty
\* (if dirty), unpin, release in that order and issues the release only
\* after its unpin succeeded.
C19_DirtyThenUnpinThenRelease ==
  /\ nret.op \in {"unload", "destroy"} =>
       /\ nret.prePins >= 1
       /\ \A i \in 1..Len(nret.calls) : nret.calls[i][2] = nret.pId
  /\ nret.op = "unload" => CallNames = MarkThenUnpin(nret.preDirty)
  /\ nret.op = "destroy" =>
       LET first == MarkThenUnpin(nret.preDirty)
           n == Len(first)
       IN IF first[n] = "unpin" /\ ~isError(nret.calls[n][3])
          THEN CallNames = first \o <<"release">>
          ELSE CallNames = first

\* a dirty node is unloaded: setPageDirty, then unpin, both succeed
C19_Witness ==
  /\ nret.op = "unload" /\ nret.preDirty
  /\ nret.calls = <<<<"setPageDirty", nret.pId, "E_NO_ERROR">>,
                    <<"unpin", nret.pId, "E_NO_ERROR">>>>
  /\ pool.dirty[nret.pId]
  /\ pool.pins[nret.pId] = nret.prePins - 1

\* C20: the node create_node writes has maxNumElements =
\* (P - sizeof(header) - (k + e)) / (k + e) and elementStart = keyStart +
\* k * maxNumElements rounded up to a multiple of e, where e is the size of
\* a page id for an internal node and of V for a leaf.
C20_LayoutUsesTheElementSize ==
  (nret.op = "create" /\ nret.code = "E_NO_ERROR") =>
    LET page == pages[nret.pId]
        k == nret.kSize
        e == sizeOfElement(page.m_type, nret.vSize)
        m == (PageSize - SizeofHeader - (k + e)) \div (k + e)
        end == page.m_keyStart + k * m
    IN /\ page.m_maxNumElements = m
       /\ page.m_elementStart = ((end + e - 1) \div e) * e

----------------------------------------------------------------------------
(* Lookup: btree_next_internal, btree_next_leaf and btree_get, over the
   trees of the node-page invariants.  btree_get's m_children and m_leafs are
   read as the p_children and p_values of BTNode. *)

\* bound of the lookup model: the keys of a tree are drawn from 1..MaxKey
MaxKey == 5

\* the instantiation btree_get<K,V> is applied at: <<sizeof(K), sizeof(V)>>
GetInst == <<4, 4>>

\* the slots of a node page of that instantiation
Capacity == maxNumElements(PageSize, GetInst[1])

\* the value stored with key k
ValueOf(k) == k + MaxKey + 1

\* what the key slots past m_numElements hold: the zero of create_node's
\* memset, or a key that was stored there before
StaleKeys == {0, MaxKey}

RECURSIVE Ascending(_)
\* the elements of a set of keys in ascending order
Ascending(S) ==
  IF S = {} THEN <<>>
  ELSE LET m == CHOOSE x \in S : \A y \in S : x <= y
       IN <<m>> \o Ascending(S \ {m})

RECURSIVE Sum(_, _)
\* f[1] + ... + f[n]
Sum(f, n) == IF n = 0 THEN 0 ELSE f[n] + Sum(f, n - 1)

\* the ways to cut total consecutive items into at most maxParts parts of
\* 1..Capacity items each: the sizes of the parts in order
Splits(total, maxParts) ==
  UNION {{f \in [1..n -> 1..Capacity] : Sum(f, n) = total} : n \in 1..maxParts}

\* a page with the header create_node writes for the lookup's instantiation
NodePage(type, n, ks, es) ==
  [m_type |-> type,
   m_maxNumElements |-> Capacity,
   m_numElements |-> n,
   m_keySize |-> GetInst[1],
   m_keyStart |-> keyStart(GetInst[1]),
   m_elementSize |-> sizeOfElement(type, GetInst[2]),
   m_elementStart |-> elementStart(PageSize, GetInst[1]),
   keys |-> ks,
   elements |-> es]

\* a leaf holding the keys ks in its first slots
LeafPage(ks, staleKey) ==
  NodePage("E_LEAF", Len(ks),
           [i \in 0..(Capacity - 1) |->
              IF i < Len(ks) THEN ks[i + 1] ELSE staleKey],
           [i \in 0..(Capacity - 1) |->
              IF i < Len(ks) THEN ValueOf(ks[i + 1]) ELSE 0])

\* an internal node of the children cs: seps[i] is the minimum key under
\* cs[i + 1], the unused child slots hold INVALID_PAGE_ID
InternalPage(cs, seps, staleKey) ==
  NodePage("E_INTERNAL", Len(cs),
           [i \in 0..(Capacity - 1) |->
              IF i < Len(seps) THEN seps[i + 1] ELSE staleKey],
           [i \in 0..(Capacity - 1) |->
              IF i < Len(cs) THEN cs[i + 1] ELSE INVALID_PAGE_ID])

\* the keys of the l-th leaf when ks is cut into leaves of the sizes sz
LeafKeys(ks, sz, l) == SubSeq(ks, Sum(sz, l - 1) + 1, Sum(sz, l))

\* a tree that is one leaf (page 1)
OneLeaf(ks, staleKey) == [p \in 1..1 |-> LeafPage(ks, staleKey)]

\* a tree that is an internal root without children
EmptyRoot(staleKey) == [p \in 1..1 |-> InternalPage(<<>>, <<>>, staleKey)]

\* the root (page 1) over the leaves of the sizes sz (pages 2, 3, ...)
TwoLevels(ks, sz, staleKey) ==
  LET n == Len(sz)
  IN [p \in 1..(n + 1) |->
        IF p = 1
        THEN InternalPage([j \in 1..n |-> j + 1],
                          [j \in 1..(n - 1) |-> LeafKeys(ks, sz, j + 1)[1]],
                          staleKey)
        ELSE LeafPage(LeafKeys(ks, sz, p - 1), staleKey)]

\* the root (page 1) over internal nodes (pages 2, 3, ...) that take gs[j]
\* consecutive leaves each; the leaves follow the internal nodes
ThreeLevels(ks, sz, gs, staleKey) ==
  LET n == Len(sz)
      m == Len(gs)
      first(j) == Sum(gs, j - 1) + 1
  IN [p \in 1..(1 + m + n) |->
        IF p = 1
        THEN InternalPage([j \in 1..m |-> j + 1],
                          [j \in 1..(m - 1) |->
                             LeafKeys(ks, sz, first(j + 1))[1]],
                          staleKey)
        ELSE IF p <= 1 + m
        THEN LET j == p - 1
             IN InternalPage([c \in 1..gs[j] |-> 1 + m + first(j) + c - 1],
                             [c \in 1..(gs[j] - 1) |->
                                LeafKeys(ks, sz, first(j) + c)[1]],
                             staleKey)
        ELSE LeafPage(LeafKeys(ks, sz, p - 1 - m), staleKey)]

\* the trees of one to three levels that hold the keys ks
TreesOf(ks, staleKey) ==
  {OneLeaf(ks, staleKey) : x \in IF Len(ks) <= Capacity THEN {1} ELSE {}}
    \cup {EmptyRoot(staleKey) : x \in IF Len(ks) = 0 THEN {1} ELSE {}}
    \cup {TwoLevels(ks, sz, staleKey) : sz \in Splits(Len(ks), Capacity)}
    \cup UNION {{ThreeLevels(ks, sz, gs, staleKey) :
                   gs \in Splits(Len(sz), Capacity)} :
                sz \in Splits(Len(ks), Len(ks))}

\* next_internal: the key test of the scan
AtOrAfterStrict(key, sep) == key > sep

AtOrAfter(key, sep) == key >= sep

RECURSIVE ScanInternal(_, _, _)
\* next_internal: the loop, from index i
ScanInternal(page, key, i) ==
  IF /\ i < page.m_maxNumElements - 1
     /\ page.elements[i + 1] # INVALID_PAGE_ID
     /\ AtOrAfter(key, page.keys[i])
  THEN ScanInternal(page, key, i + 1)
  ELSE i

btree_next_internal(page, key) ==
  IF page.m_numElements <= 1 THEN 0 ELSE ScanInternal(page, key, 0)

RECURSIVE ScanLeaf(_, _, _)
\* next_leaf: the loop, from index i
ScanLeaf(page, key, i) ==
  IF i < page.m_numElements /\ key > page.keys[i]
  THEN ScanLeaf(page, key, i + 1)
  ELSE i

RECURSIVE ScanLeafToMax(_, _, _)
\* next_leaf with the loop bounded by maxNumElements instead of numElements
ScanLeafToMax(page, key, i) ==
  IF i < page.m_maxNumElements /\ key > page.keys[i]
  THEN ScanLeafToMax(page, key, i + 1)
  ELSE i

btree_next_leafToMax(page, key) == ScanLeafToMax(page, key, 0)

btree_next_leaf(page, key) == ScanLeaf(page, key, 0)

\* what btree_get hands back: the pool, the error code, *value (0 when it is
\* not assigned), the pages it loaded and the leaf it searched (0 when none)
GetResult(pl, code, value, path, leaf) ==
  [pool |-> pl, code |-> code, value |-> value, path |-> path, leaf |-> leaf]

RECURSIVE btree_get(_, _, _, _, _, _)
\* btree_get on the pinned node of page pId, level levels below the root;
\* the load of the child at level failAt fails (0: no load fails)
btree_get(pl, pgs, pId, key, failAt, level) ==
  LET page == pgs[pId]
  IN IF page.m_type = "E_INTERNAL"
     THEN LET child_idx == btree_next_internal(page, key)
              childPage == page.elements[child_idx]
          IN IF childPage # INVALID_PAGE_ID
             THEN LET l == btree_load_node(pl, pgs, childPage, GetInst[1],
                                           GetInst[2], NullNode,
                                           failAt # level + 1)
                  IN IF isError(l.code)
                     THEN GetResult(l.pool, l.code, 0, <<>>, 0)
                     ELSE LET g == btree_get(l.pool, pgs, childPage, key,
                                             failAt, level + 1)
                              u == btree_unload_node(g.pool, pgs, l.node, TRUE)
                          IN GetResult(u.pool, g.code, g.value,
                                       <<childPage>> \o g.path, g.leaf)
             ELSE GetResult(pl, "E_BTREE_KEY_NOT_FOUND", 0, <<>>, 0)
     ELSE LET i == btree_next_leaf(page, key)
          IN IF i < page.m_numElements /\ page.keys[i] = key
             THEN GetResult(pl, "E_NO_ERROR", page.elements[i], <<>>, pId)
             ELSE GetResult(pl, "E_BTREE_KEY_NOT_FOUND", 0, <<>>, pId)

----------------------------------------------------------------------------
(* The lookup specification: btree_get on the pinned root (page 1) of each
   tree, for every key *)

\* the keys looked up: the stored ones, one below and one above them
LookupKeys == 0..(MaxKey + 1)

\* the level whose load fails, 0 for none
FailLevels == {0, 1, 2}

InitGet ==
  /\ \E S \in SUBSET (1..MaxKey), staleKey \in StaleKeys :
       pages \in TreesOf(Ascending(S), staleKey)
  /\ pool = [pins |-> [p \in DOMAIN pages |-> IF p = 1 THEN 1 ELSE 0],
             dirty |-> [p \in DOMAIN pages |-> FALSE],
             allocated |-> DOMAIN pages]
  /\ nodes = [h \in Handles |->
                IF h = "a" THEN [NullNode EXCEPT !.pinned = TRUE, !.pId = 1]
                           ELSE NullNode]
  /\ nret = [op |-> "new", code |-> "E_NO_ERROR", h |-> "a", pId |-> 0,
             kSize |-> 0, vSize |-> 0, key |-> 0, value |-> 0, calls |-> <<>>,
             prePins |-> 0, preDirty |-> FALSE]
  /\ NoStorage

Get ==
  /\ \E key \in LookupKeys, failAt \in FailLevels :
       LET r == btree_get(pool, pages, nodes["a"].pId, key, failAt, 0)
       IN /\ pool' = r.pool
          /\ nret' = [NRet("get", r.code, "a", r.leaf, GetInst[1], GetInst[2],
                           r.path)
                        EXCEPT !.key = key, !.value = r.value]
          /\ UNCHANGED <<pages, nodes>>
  /\ UNCHANGED storageVars

NextGet == Get

SpecGet == InitGet /\ [][NextGet]_vars

----------------------------------------------------------------------------
(* Claims about the lookup, checked under SpecGet *)

LeafPages == {p \in DOMAIN pages : pages[p].m_type = "E_LEAF"}

\* the keys the leaves of the tree hold
StoredKeys ==
  UNION {{pages[p].keys[i] : i \in 0..(pages[p].m_numElements - 1)} :
           p \in LeafPages}

\* leaf is the leaf a key belongs in: the last leaf whose minimum is not
\* above the key, or the first leaf when there is none
CanHold(leaf, key) ==
  \A p \in LeafPages \ {leaf} :
    (pages[p].keys[0] <= key) <=> (pages[p].keys[0] < pages[leaf].keys[0])

\* C10: on a tree that satisfies the node-page invariants, btree_get whose
\* loads all succeed returns the value stored with the key when a leaf holds
\* the key and E_BTREE_KEY_NOT_FOUND when none does, and the leaf it searched
\* is the one leaf the key belongs in.
C10_GetFindsStoredKeys ==
  (nret.op = "get" /\ nret.code # "E_BUFPOOL_ERROR") =>
    /\ nret.key \in StoredKeys =>
         nret.code = "E_NO_ERROR" /\ nret.value = ValueOf(nret.key)
    /\ nret.key \notin StoredKeys => nret.code = "E_BTREE_KEY_NOT_FOUND"
    /\ LeafPages # {} => nret.pId \in LeafPages /\ CanHold(nret.pId, nret.key)

\* a key equal to a separator of the root of a three-level tree is found
\* two loads below the root, in a leaf that is not the first
C10_Witness ==
  /\ nret.op = "get" /\ nret.code = "E_NO_ERROR"
  /\ Len(nret.calls) = 2
  /\ pages[1].m_numElements >= 2
  /\ pages[1].keys[0] = nret.key
  /\ nret.value = ValueOf(nret.key)
  /\ \E p \in LeafPages : p < nret.pId

----------------------------------------------------------------------------
(* The search specification: btree_next_internal and btree_next_leaf applied
   to one pinned node (page 1), for every populated node and every key *)

\* an internal node as create_node and the insertions leave it: the child
\* slots past m_numElements hold what the page held before
StaleInternalPage(cs, seps, staleKey, staleId) ==
  [InternalPage(cs, seps, staleKey) EXCEPT
     !.elements = [i \in 0..(Capacity - 1) |->
                     IF i < Len(cs) THEN cs[i + 1] ELSE staleId]]

\* the sets of at most n keys
KeySets(n) == {S \in SUBSET (1..MaxKey) : Cardinality(S) <= n}

\* the leaves and internal nodes the search functions are applied to
SearchPages ==
  {LeafPage(Ascending(S), staleKey) :
     S \in KeySets(Capacity), staleKey \in StaleKeys}
    \cup {StaleInternalPage(<<>>, <<>>, staleKey, staleId) :
            staleKey \in StaleKeys, staleId \in StaleIds}
    \cup UNION {{StaleInternalPage([j \in 1..(Cardinality(S) + 1) |-> j + 1],
                                   Ascending(S), staleKey, staleId) :
                   staleKey \in StaleKeys, staleId \in StaleIds} :
                S \in KeySets(Capacity - 1)}

RECURSIVE ReadsInternal(_, _, _)
\* next_internal: the slots the loop reads from index i on
ReadsInternal(page, key, i) ==
  IF i < page.m_maxNumElements - 1
  THEN {<<"child", i + 1>>}
         \cup (IF page.elements[i + 1] # INVALID_PAGE_ID
               THEN {<<"key", i>>}
                      \cup (IF AtOrAfter(key, page.keys[i])
                            THEN ReadsInternal(page, key, i + 1)
                            ELSE {})
               ELSE {})
  ELSE {}

RECURSIVE ReadsLeaf(_, _, _)
\* next_leaf: the key slots the loop compares from index i on
ReadsLeaf(page, key, i) ==
  IF i < page.m_numElements
  THEN {<<"key", i>>}
         \cup (IF key > page.keys[i] THEN ReadsLeaf(page, key, i + 1) ELSE {})
  ELSE {}

InitSearch ==
  /\ \E page \in SearchPages : pages = [p \in 1..1 |-> page]
  /\ pool = [pins |-> [p \in 1..1 |-> 1], dirty |-> [p \in 1..1 |-> FALSE],
             allocated |-> {1}]
  /\ nodes = [h \in Handles |->
                IF h = "a" THEN [NullNode EXCEPT !.pinned = TRUE, !.pId = 1]
                           ELSE NullNode]
  /\ nret = [op |-> "new", code |-> "E_NO_ERROR", h |-> "a", pId |-> 0,
             kSize |-> 0, vSize |-> 0, key |-> 0, value |-> 0, calls |-> <<>>,
             prePins |-> 0, preDirty |-> FALSE]
  /\ NoStorage

\* the record of a search: value is the index returned, calls the slots read
SearchRet(op, key, index, reads) ==
  [NRet(op, "E_NO_ERROR", "a", nodes["a"].pId, GetInst[1], GetInst[2], reads)
     EXCEPT !.key = key, !.value = index]

NextInternal ==
  /\ pages[nodes["a"].pId].m_type = "E_INTERNAL"
  /\ \E key \in LookupKeys :
       LET page == pages[nodes["a"].pId]
       IN nret' = SearchRet("next_internal", key,
                            btree_next_internal(page, key),
                            IF page.m_numElements <= 1 THEN {}
                            ELSE ReadsInternal(page, key, 0))
  /\ UNCHANGED <<pool, pages, nodes, storageVars>>

NextLeaf ==
  /\ pages[nodes["a"].pId].m_type = "E_LEAF"
  /\ \E key \in LookupKeys :
       LET page == pages[nodes["a"].pId]
       IN nret' = SearchRet("next_leaf", key, btree_next_leaf(page, key),
                            ReadsLeaf(page, key, 0))
  /\ UNCHANGED <<pool, pages, nodes, storageVars>>

NextSearch == NextInternal \/ NextLeaf

SpecSearch == InitSearch /\ [][NextSearch]_vars

----------------------------------------------------------------------------
(* Claims about the search functions, checked under SpecSearch *)

\* the node searched
Searched == pages[nodes["a"].pId]

\* slot i of an internal node passes the test of next_internal's scan
Passes(page, key, i) ==
  page.elements[i + 1] # INVALID_PAGE_ID /\ key >= page.keys[i]

\* the child slots past m_numElements hold INVALID_PAGE_ID
UnusedChildrenInvalid(page) ==
  \A i \in page.m_numElements..(page.m_maxNumElements - 1) :
    page.elements[i] = INVALID_PAGE_ID

\* C15 as stated: for numElements >= 2 next_internal returns the largest i in
\* [0, maxNumElements-2] with child[i+1] # INVALID_PAGE_ID and key >= keys[i]
\* (0 when there is no such i), and 0 for numElements <= 1.
C15_Original ==
  nret.op = "next_internal" =>
    LET passing == {i \in 0..(Searched.m_maxNumElements - 2) :
                      Passes(Searched, nret.key, i)}
    IN IF Searched.m_numElements <= 1 \/ passing = {} THEN nret.value = 0
       ELSE /\ nret.value \in passing
            /\ \A j \in passing : j <= nret.value

\* C15 amended: for numElements >= 2 next_internal returns the first index
\* in [0, maxNumElements-1] at which the scan stops, all slots before it
\* passing; on a node whose unused child slots hold INVALID_PAGE_ID that is
\* one more than the largest passing i, and 0 when no slot passes.  For
\* numElements <= 1 it returns 0.
C15_NextInternalCountsPassingSlots ==
  nret.op = "next_internal" =>
    LET page == Searched
        last == page.m_maxNumElements - 2
        passing == {i \in 0..last : Passes(page, nret.key, i)}
    IN IF page.m_numElements <= 1 THEN nret.value = 0
       ELSE /\ nret.value \in 0..(last + 1)
            /\ \A j \in 0..(nret.value - 1) : j \in passing
            /\ nret.value <= last => nret.value \notin passing
            /\ UnusedChildrenInvalid(page) =>
                 nret.value = IF passing = {} THEN 0
                              ELSE 1 + CHOOSE i \in passing :
                                         \A j \in passing : j <= i

\* a key at or above the first separator of a node of two children: the
\* index returned is 1, the child to the right of that separator
C15_Witness ==
  /\ nret.op = "next_internal"
  /\ Searched.m_numElements = 2
  /\ UnusedChildrenInvalid(Searched)
  /\ nret.key >= Searched.keys[0]
  /\ nret.value = 1

\* C17: next_internal and next_leaf return an index in [0, numElements];
\* next_internal reads no key or child slot at an index >= maxNumElements
\* and returns no index whose child slot is past the populated children
\* (index 0 of a node without children aside).
C17_IndexWithinThePopulatedSlots ==
  nret.op \in {"next_internal", "next_leaf"} =>
    /\ nret.value \in 0..Searched.m_numElements
    /\ \A r \in nret.calls : r[2] \in 0..(Searched.m_maxNumElements - 1)
    /\ nret.op = "next_internal" =>
         nret.value = 0 \/ nret.value < Searched.m_numElements

\* C18: on a leaf with ascending keys next_leaf returns the leftmost index
\* i < numElements with keys[i] >= key, and numElements when every live key
\* is smaller; no slot at an index >= numElements is compared.
C18_NextLeafFindsLeftmost ==
  nret.op = "next_leaf" =>
    LET page == Searched
        atOrAbove == {i \in 0..(page.m_numElements - 1) :
                        page.keys[i] >= nret.key}
    IN /\ nret.value = IF atOrAbove = {} THEN page.m_numElements
                       ELSE CHOOSE i \in atOrAbove :
                              \A j \in atOrAbove : i <= j
       /\ \A r \in nret.calls : r[2] < page.m_numElements

\* a key above every live key of a leaf whose next slot holds a stale key
\* that is not smaller
C18_Witness ==
  /\ nret.op = "next_leaf"
  /\ Searched.m_numElements \in 1..(Searched.m_maxNumElements - 1)
  /\ nret.value = Searched.m_numElements
  /\ Searched.keys[nret.value] >= nret.key
  /\ nret.calls = {<<"key", i>> : i \in 0..(nret.value - 1)}

----------------------------------------------------------------------------
(* Insertion.  btree_insert_root, btree_insert, btree_split_leaf,
   btree_split_internal and the shift-insert functions are declared in
   btree_impl.h without a body: they follow the algorithm of the design
   (section 4.5.3), on top of btree_create_node, btree_load_node,
   btree_unload_node, btree_next_internal and btree_next_leaf as they are. *)

\* bound of the tree model: the keys inserted are drawn from 1..MaxTreeKey
MaxTreeKey == 5

TreeKeys == 1..MaxTreeKey

\* the values inserted
TreeValues == {1, 2}

\* the pages of the pool of the tree model: more than any tree over
\* TreeKeys takes
TreePageIds == 1..(2 * MaxTreeKey + 2)

\* the first index of the upper half of a full node
UpperHalf == (Capacity + 1) \div 2

\* f with x put at slot i, the slots i..n-1 moved one to the right
ShiftInsert(f, n, i, x) ==
  [j \in DOMAIN f |->
     IF j < i THEN f[j]
     ELSE IF j = i THEN x
     ELSE IF j <= n THEN f[j - 1]
     ELSE f[j]]

\* f with the slots from..n-1 moved to the slots 0.., the others set to blank
MoveDown(f, n, from, blank) ==
  [j \in DOMAIN f |-> IF j + from < n THEN f[j + from] ELSE blank]

\* f with the slots from.. set to blank
CutAt(f, from, blank) == [j \in DOMAIN f |-> IF j < from THEN f[j] ELSE blank]

\* f with the slots at..n-1 overlaid by the slots from.. of g, up to count
Overlay(f, at, g, from, count) ==
  [j \in DOMAIN f |->
     IF j >= at /\ j < at + count THEN g[j - at + from] ELSE f[j]]

btree_shift_insert_leaf(page, idx, key, value) ==
  [page EXCEPT !.keys = ShiftInsert(page.keys, page.m_numElements, idx, key),
               !.elements = ShiftInsert(page.elements, page.m_numElements,
                                        idx, value),
               !.m_numElements = @ + 1]

\* the child becomes child idx of the node, key the key to its left
btree_shift_insert_internal(page, idx, child, key) ==
  [page EXCEPT !.keys = ShiftInsert(page.keys, page.m_numElements - 1,
                                    idx - 1, key),
               !.elements = ShiftInsert(page.elements, page.m_numElements,
                                        idx, child),
               !.m_numElements = @ + 1]

\* what a tree function hands back: the pool, the pages, the node handle it
\* worked on, an error code, and what it reports to its caller
TreeResult(pl, pgs, node, code, report) ==
  [pool |-> pl, pages |-> pgs, node |-> node, code |-> code,
   report |-> report]

NoSplit == [split |-> FALSE, key |-> 0, sibling |-> NullNode]

\* a BTNode variable of a tree function before it is assigned: its m_next
\* holds whatever the stack held
FreshNode(stale) == [NullNode EXCEPT !.m_next = stale]

\* the pages and the report of a leaf split once the new leaf c is created
SplitLeafInto(c, page, node) ==
  LET n == page.m_numElements
      S == c.node.pId
  IN IF isError(c.code)
     THEN TreeResult(c.pool, c.pages, node, c.code, NoSplit)
     ELSE TreeResult(
            c.pool,
            [c.pages EXCEPT
               ![S] = [@ EXCEPT
                         !.keys = MoveDown(page.keys, n, UpperHalf, 0),
                         !.elements = MoveDown(page.elements, n, UpperHalf, 0),
                         !.m_numElements = n - UpperHalf],
               ![node.pId] = [page EXCEPT
                         !.keys = CutAt(page.keys, UpperHalf, 0),
                         !.elements = CutAt(page.elements, UpperHalf, 0),
                         !.m_numElements = UpperHalf]],
            [node EXCEPT !.m_next = S, !.m_dirty = TRUE],
            "E_NO_ERROR",
            [split |-> TRUE, key |-> page.keys[UpperHalf],
             sibling |-> [c.node EXCEPT !.m_next = node.m_next,
                                        !.m_dirty = TRUE]])

\* btree_split_leaf: a new leaf takes the entries from UpperHalf on and is
\* linked after the node; reports the new leaf and its first key
btree_split_leaf(pl, pgs, node, stale) ==
  SplitLeafInto(btree_create_node(pl, pgs, "E_LEAF", GetInst[1], GetInst[2],
                                  FreshNode(stale), TRUE, stale),
                pgs[node.pId], node)

\* the pages and the report of an internal split once the new node c is
\* created
SplitInternalInto(c, page, node) ==
  LET n == page.m_numElements
      S == c.node.pId
  IN IF isError(c.code)
     THEN TreeResult(c.pool, c.pages, node, c.code, NoSplit)
     ELSE TreeResult(
            c.pool,
            [c.pages EXCEPT
               ![S] = [@ EXCEPT
                         !.keys = Overlay(@, 0, page.keys, UpperHalf,
                                          n - UpperHalf - 1),
                         !.elements = Overlay(@, 0, page.elements, UpperHalf,
                                              n - UpperHalf),
                         !.m_numElements = n - UpperHalf],
               ![node.pId] = [page EXCEPT
                         !.keys = CutAt(page.keys, UpperHalf - 1, 0),
                         !.elements = CutAt(page.elements, UpperHalf,
                                            INVALID_PAGE_ID),
                         !.m_numElements = UpperHalf]],
            [node EXCEPT !.m_dirty = TRUE],
            "E_NO_ERROR",
            [split |-> TRUE, key |-> page.keys[UpperHalf - 1],
             sibling |-> [c.node EXCEPT !.m_dirty = TRUE]])

\* btree_split_internal: a new internal node takes the children from
\* UpperHalf on and the keys to their right; the key to the left of the
\* first child moved is reported with the new node
btree_split_internal(pl, pgs, node, stale) ==
  SplitInternalInto(btree_create_node(pl, pgs, "E_INTERNAL", GetInst[1],
                                      GetInst[2], FreshNode(stale), TRUE,
                                      stale),
                    pgs[node.pId], node)

\* the outcome of a write outside the slots of a page, or of a descent that
\* does not end: the model follows the operation no further
Undefined(pl, pgs, node) == TreeResult(pl, pgs, node, "UNDEFINED", NoSplit)

\* the longest descent followed
MaxLevel == Cardinality(TreePageIds)

\* the entry goes into the half of the split leaf its key belongs to
InsertLeafSplit(sp, node, key, value) ==
  LET target == IF key >= sp.report.key THEN sp.report.sibling.pId
                                        ELSE node.pId
  IN IF isError(sp.code) THEN sp
     ELSE [sp EXCEPT !.pages[target] =
             btree_shift_insert_leaf(@, btree_next_leaf(@, key), key, value)]

\* the entry goes into the leaf at slot i
InsertLeafAt(pl, pgs, node, key, value, stale, i) ==
  LET page == pgs[node.pId]
  IN IF i < page.m_numElements /\ page.keys[i] = key
     THEN TreeResult(pl, [pgs EXCEPT ![node.pId].elements[i] = value],
                     [node EXCEPT !.m_dirty = TRUE], "E_NO_ERROR", NoSplit)
     ELSE IF page.m_numElements < page.m_maxNumElements
     THEN TreeResult(pl,
                     [pgs EXCEPT ![node.pId] =
                        btree_shift_insert_leaf(page, i, key, value)],
                     [node EXCEPT !.m_dirty = TRUE], "E_NO_ERROR", NoSplit)
     ELSE InsertLeafSplit(btree_split_leaf(pl, pgs, node, stale), node, key,
                          value)

\* insertion into a leaf: overwrite of the value of a key that is present,
\* shift-insert when there is room, split and insertion into the half the
\* key belongs to when the leaf is full
InsertLeaf(pl, pgs, node, key, value, stale) ==
  InsertLeafAt(pl, pgs, node, key, value, stale,
               btree_next_leaf(pgs[node.pId], key))

\* the sibling goes into the half of the split parent its key belongs to
InsertSiblingSplit(sp, node, idx, report, top) ==
  LET toSibling == report.key >= sp.report.key
      target == IF toSibling THEN sp.report.sibling.pId ELSE node.pId
      q == IF toSibling THEN idx + 1 - UpperHalf ELSE idx + 1
  IN IF isError(sp.code) THEN sp
     ELSE IF q \in 1..top /\ sp.pages[target].m_numElements <= top
     THEN [sp EXCEPT !.pages[target] =
             btree_shift_insert_internal(@, q, report.sibling.pId,
                                         report.key)]
     ELSE Undefined(sp.pool, sp.pages, node)

\* the parent takes the sibling a split of its child idx reported: shift-
\* insert at idx + 1 when there is room, else split of the parent first
InsertSibling(pl, pgs, node, idx, report, stale) ==
  LET page == pgs[node.pId]
      top == page.m_maxNumElements - 1
  IN IF page.m_numElements < page.m_maxNumElements
     THEN IF idx + 1 <= top
          THEN TreeResult(pl,
                          [pgs EXCEPT ![node.pId] =
                             btree_shift_insert_internal(
                               page, idx + 1, report.sibling.pId, report.key)],
                          [node EXCEPT !.m_dirty = TRUE], "E_NO_ERROR",
                          NoSplit)
          ELSE Undefined(pl, pgs, node)
     ELSE InsertSiblingSplit(btree_split_internal(pl, pgs, node, stale),
                             node, idx, report, top)

\* the pool after the nodes were unloaded one after the other
UnloadBoth(pl, pgs, first, second) ==
  btree_unload_node(btree_unload_node(pl, pgs, first, TRUE).pool, pgs,
                    second, TRUE).pool

\* the parent after the insertion into its child idx returned r: the child
\* is unloaded, and so is the sibling it reports, which the parent takes
InsertReturned(node, idx, stale, r) ==
  IF isError(r.code) \/ ~r.report.split
  THEN TreeResult(btree_unload_node(r.pool, r.pages, r.node, TRUE).pool,
                  r.pages, node, r.code, NoSplit)
  ELSE InsertSibling(UnloadBoth(r.pool, r.pages, r.node, r.report.sibling),
                     r.pages, node, idx, r.report, stale)

RECURSIVE btree_insert(_, _, _, _, _, _, _)
\* the insertion goes on in the child l was loaded from
InsertLoaded(pgs, node, key, value, stale, level, idx, l) ==
  IF isError(l.code) THEN TreeResult(l.pool, pgs, node, l.code, NoSplit)
  ELSE InsertReturned(node, idx, stale,
                      btree_insert(l.pool, pgs, l.node, key, value, stale,
                                   level + 1))

\* the insertion goes on in child idx of the internal node
InsertChild(pl, pgs, node, key, value, stale, level, idx) ==
  IF pgs[node.pId].elements[idx] = INVALID_PAGE_ID
  THEN Undefined(pl, pgs, node)
  ELSE InsertLoaded(pgs, node, key, value, stale, level, idx,
                    btree_load_node(pl, pgs, pgs[node.pId].elements[idx],
                                    GetInst[1], GetInst[2], FreshNode(stale),
                                    TRUE))

\* btree_insert on the pinned node: a leaf takes the entry, an internal node
\* loads the child next_internal names, inserts there, unloads it and takes
\* the sibling the child reports
btree_insert(pl, pgs, node, key, value, stale, level) ==
  IF level > MaxLevel THEN Undefined(pl, pgs, node)
  ELSE IF pgs[node.pId].m_type = "E_LEAF"
  THEN InsertLeaf(pl, pgs, node, key, value, stale)
  ELSE InsertChild(pl, pgs, node, key, value, stale, level,
                   btree_next_internal(pgs[node.pId], key))

\* the new root c over the old root and the sibling it reported
RootGrown(root, r, c) ==
  LET grown == [c.pages[c.node.pId] EXCEPT
                  !.m_numElements = 2,
                  !.keys[0] = r.report.key,
                  !.elements[0] = root.pId,
                  !.elements[1] = r.report.sibling.pId]
  IN IF isError(c.code)
     THEN TreeResult(c.pool, c.pages, r.node, c.code, NoSplit)
     ELSE TreeResult(UnloadBoth(c.pool, c.pages, r.node, r.report.sibling),
                     [c.pages EXCEPT ![c.node.pId] = grown],
                     [c.node EXCEPT !.m_dirty = TRUE], "E_NO_ERROR", NoSplit)

\* the root after the insertion into it returned r
RootInserted(root, stale, r) ==
  IF isError(r.code) \/ ~r.report.split THEN r
  ELSE RootGrown(root, r,
                 btree_create_node(r.pool, r.pages, "E_INTERNAL", GetInst[1],
                                   GetInst[2], FreshNode(stale), TRUE, stale))

\* btree_insert_root: when the root reports a split a new internal root
\* takes the old root and its sibling, and the caller's handle names it
btree_insert_root(pl, pgs, root, key, value, stale) ==
  RootInserted(root, stale, btree_insert(pl, pgs, root, key, value, stale, 0))

----------------------------------------------------------------------------
(* Removal.  btree_remove, btree_remove_shift_leaf,
   btree_remove_shift_internal, btree_merge_leaf and btree_merge_internal
   are declared in btree_impl.h without a body: they follow the algorithm of
   the design (section 4.5.4).  Where the design is silent the model takes
   the reading that keeps the pages within their slots: two nodes are merged
   only when their entries fit in one node, and a slot vacated by a shift is
   cleared (a child slot to INVALID_PAGE_ID). *)

\* f without slot i: the slots i+1..n-1 moved one to the left, slot n-1 blank
ShiftRemove(f, n, i, blank) ==
  [j \in DOMAIN f |->
     IF j < i THEN f[j]
     ELSE IF j < n - 1 THEN f[j + 1]
     ELSE IF j = n - 1 THEN blank
     ELSE f[j]]

btree_remove_shift_leaf(page, idx) ==
  [page EXCEPT !.keys = ShiftRemove(page.keys, page.m_numElements, idx, 0),
               !.elements = ShiftRemove(page.elements, page.m_numElements,
                                        idx, 0),
               !.m_numElements = @ - 1]

\* child idx >= 1 and the key to its left leave the node
btree_remove_shift_internal(page, idx) ==
  [page EXCEPT !.keys = ShiftRemove(page.keys, page.m_numElements - 1,
                                    idx - 1, 0),
               !.elements = ShiftRemove(page.elements, page.m_numElements,
                                        idx, INVALID_PAGE_ID),
               !.m_numElements = @ - 1]

\* what btree_remove reports: the value removed, whether the minimum of the
\* subtree changed and the new minimum (0 when the subtree holds no key)
Removed(value, min_changed, new_min) ==
  [value |-> value, min_changed |-> min_changed, new_min |-> new_min]

NotRemoved == Removed(0, FALSE, 0)

\* the threshold below which a child is merged with a sibling
MinOccupancy == (Capacity + 1) \div 2

\* the entries of child idx2 of the parent move behind those of child idx1
btree_merge_leaf(pgs, parent, idx1, idx2) ==
  LET p1 == pgs[parent].elements[idx1]
      p2 == pgs[parent].elements[idx2]
      n1 == pgs[p1].m_numElements
      n2 == pgs[p2].m_numElements
  IN [pgs EXCEPT
        ![p1] = [@ EXCEPT
                   !.keys = Overlay(@, n1, pgs[p2].keys, 0, n2),
                   !.elements = Overlay(@, n1, pgs[p2].elements, 0, n2),
                   !.m_numElements = n1 + n2],
        ![parent] = btree_remove_shift_internal(@, idx2)]

\* the children of child idx2 move behind those of child idx1, the key the
\* parent held for child idx2 between the keys of the two
btree_merge_internal(pgs, parent, idx1, idx2) ==
  LET p1 == pgs[parent].elements[idx1]
      p2 == pgs[parent].elements[idx2]
      n1 == pgs[p1].m_numElements
      n2 == pgs[p2].m_numElements
      middle == pgs[parent].keys[idx2 - 1]
  IN [pgs EXCEPT
        ![p1] = [@ EXCEPT
                   !.keys = Overlay([@ EXCEPT ![n1 - 1] = middle], n1,
                                    pgs[p2].keys, 0, n2 - 1),
                   !.elements = Overlay(@, n1, pgs[p2].elements, 0, n2),
                   !.m_numElements = n1 + n2],
        ![parent] = btree_remove_shift_internal(@, idx2)]


\* removal from a leaf: the entry of the key leaves by a shift to the left;
\* reports whether it was the first entry and the first key that remains
RemoveLeaf(pl, pgs, node, key) ==
  LET page == pgs[node.pId]
      i == btree_next_leaf(page, key)
      shifted == btree_remove_shift_leaf(page, i)
  IN IF i < page.m_numElements /\ page.keys[i] = key
     THEN TreeResult(pl, [pgs EXCEPT ![node.pId] = shifted],
                     [node EXCEPT !.m_dirty = TRUE], "E_NO_ERROR",
                     Removed(page.elements[i], i = 0,
                             IF shifted.m_numElements > 0 THEN shifted.keys[0]
                                                          ELSE 0))
     ELSE TreeResult(pl, pgs, node, "E_BTREE_KEY_NOT_FOUND", NotRemoved)

\* the children idx1 and idx1 + 1 of the page can be merged: two nodes of
\* one kind whose entries fit in one node
CanMerge(pl, pgs, page, idx1) ==
  LET p1 == page.elements[idx1]
      p2 == page.elements[idx1 + 1]
  IN /\ p1 # p2 /\ {p1, p2} \subseteq pl.allocated
     /\ pgs[p1].m_type = pgs[p2].m_type
     /\ pgs[p1].m_type \in NodeTypes
     /\ pgs[p1].m_numElements + pgs[p2].m_numElements
          <= pgs[p1].m_maxNumElements
     /\ pgs[p1].m_type = "E_INTERNAL" =>
          pgs[p1].m_numElements >= 1 /\ pgs[p2].m_numElements >= 1

\* the parent once the node merged away is destroyed: the node kept is
\* unloaded
FixUpDestroyed(node, kept, up, d) ==
  TreeResult(btree_unload_node(d.pool, d.pages, [kept EXCEPT !.m_dirty = TRUE],
                               TRUE).pool,
             d.pages, [node EXCEPT !.m_dirty = TRUE], "E_NO_ERROR", up)

\* the parent once the sibling of the merge is loaded: of the child and the
\* sibling the right one is destroyed
FixUpLoaded(merged, node, hasRight, child, up, l) ==
  FixUpDestroyed(node,
                 IF hasRight THEN child ELSE l.node,
                 up,
                 btree_destroy_node(l.pool, merged,
                                    IF hasRight
                                    THEN [l.node EXCEPT !.m_dirty = TRUE]
                                    ELSE child,
                                    TRUE, TRUE))

\* the pages after the merge of the children idx1 and idx1 + 1: a leaf
\* without entries that is kept takes the key of the leaf merged into it
MergedPages(keyed, node, idx1, emptyFirst) ==
  LET rekeyed == IF emptyFirst /\ idx1 >= 1
                 THEN [keyed EXCEPT ![node.pId].keys[idx1 - 1] =
                                      keyed[node.pId].keys[idx1]]
                 ELSE keyed
  IN IF keyed[keyed[node.pId].elements[idx1]].m_type = "E_LEAF"
     THEN btree_merge_leaf(rekeyed, node.pId, idx1, idx1 + 1)
     ELSE btree_merge_internal(rekeyed, node.pId, idx1, idx1 + 1)

\* the parent with the key of the child brought up to date (keyed): a child
\* below MinOccupancy is merged with its right sibling, or with its left one
\* when it is the last child
FixUpKeyed(pl, pgs, keyed, node, idx, child, rep, stale) ==
  LET page == pgs[node.pId]
      n == page.m_numElements
      hasRight == idx + 1 < n
      hasLeft == idx >= 1 /\ idx < n
      idx1 == IF hasRight THEN idx ELSE idx - 1
      merge == /\ pgs[child.pId].m_numElements < MinOccupancy
               /\ hasRight \/ hasLeft
               /\ CanMerge(pl, keyed, keyed[node.pId], idx1)
      emptyFirst == /\ pgs[page.elements[idx1]].m_type = "E_LEAF"
                    /\ pgs[page.elements[idx1]].m_numElements = 0
      up == IF idx = 0 THEN rep ELSE Removed(rep.value, FALSE, 0)
  IN IF ~merge
     THEN TreeResult(btree_unload_node(pl, keyed, child, TRUE).pool, keyed,
                     [node EXCEPT !.m_dirty = @ \/ keyed # pgs],
                     "E_NO_ERROR", up)
     ELSE FixUpLoaded(MergedPages(keyed, node, idx1, emptyFirst), node,
                      hasRight, child,
                      IF emptyFirst /\ idx1 = 0
                      THEN Removed(rep.value, TRUE, page.keys[idx1])
                      ELSE up,
                      btree_load_node(
                        pl, MergedPages(keyed, node, idx1, emptyFirst),
                        page.elements[IF hasRight THEN idx1 + 1 ELSE idx1],
                        GetInst[1], GetInst[2], FreshNode(stale), TRUE))

\* the parent after its child idx returned from a removal: the key left of
\* the child takes the new minimum (for idx = 0 the change is reported
\* upwards), then the child is merged when it is below MinOccupancy; the
\* child is unloaded, the node merged away is destroyed
RemoveFixUp(pl, pgs, node, idx, child, rep, stale) ==
  FixUpKeyed(pl, pgs,
             IF /\ rep.min_changed /\ rep.new_min # 0
                /\ idx >= 1 /\ idx < pgs[node.pId].m_numElements
             THEN [pgs EXCEPT ![node.pId].keys[idx - 1] = rep.new_min]
             ELSE pgs,
             node, idx, child, rep, stale)

\* the parent after the removal from its child idx returned r
RemoveReturned(node, idx, stale, r) ==
  IF isError(r.code)
  THEN TreeResult(btree_unload_node(r.pool, r.pages, r.node, TRUE).pool,
                  r.pages, node, r.code, NotRemoved)
  ELSE RemoveFixUp(r.pool, r.pages, node, idx, r.node, r.report, stale)

RECURSIVE btree_remove(_, _, _, _, _, _)
\* the removal goes on in the child l was loaded from
RemoveLoaded(pgs, node, key, stale, level, idx, l) ==
  IF isError(l.code) THEN TreeResult(l.pool, pgs, node, l.code, NotRemoved)
  ELSE RemoveReturned(node, idx, stale,
                      btree_remove(l.pool, pgs, l.node, key, stale,
                                   level + 1))

\* the removal goes on in child idx of the internal node
RemoveChild(pl, pgs, node, key, stale, level, idx) ==
  IF pgs[node.pId].elements[idx] = INVALID_PAGE_ID
  THEN TreeResult(pl, pgs, node, "E_BTREE_KEY_NOT_FOUND", NotRemoved)
  ELSE RemoveLoaded(pgs, node, key, stale, level, idx,
                    btree_load_node(pl, pgs, pgs[node.pId].elements[idx],
                                    GetInst[1], GetInst[2], FreshNode(stale),
                                    TRUE))

\* btree_remove on the pinned node: a leaf gives the entry up, an internal
\* node loads the child next_internal names, removes there and fixes up
btree_remove(pl, pgs, node, key, stale, level) ==
  IF level > MaxLevel
  THEN TreeResult(pl, pgs, node, "UNDEFINED", NotRemoved)
  ELSE IF pgs[node.pId].m_type = "E_LEAF"
  THEN RemoveLeaf(pl, pgs, node, key)
  ELSE RemoveChild(pl, pgs, node, key, stale, level,
                   btree_next_internal(pgs[node.pId], key))

\* the only child l of the root takes the place of the root, which is
\* destroyed
RootShrunk(r, l) ==
  IF isError(l.code) THEN r
  ELSE TreeResult(btree_destroy_node(l.pool, r.pages, r.node, TRUE,
                                     TRUE).pool,
                  btree_destroy_node(l.pool, r.pages, r.node, TRUE,
                                     TRUE).pages,
                  l.node, "E_NO_ERROR", r.report)

\* the root after the removal from it returned r
RootRemoved(stale, r) ==
  IF /\ ~isError(r.code)
     /\ r.pages[r.node.pId].m_type = "E_INTERNAL"
     /\ r.pages[r.node.pId].m_numElements = 1
  THEN RootShrunk(r, btree_load_node(r.pool, r.pages,
                                     r.pages[r.node.pId].elements[0],
                                     GetInst[1], GetInst[2], FreshNode(stale),
                                     TRUE))
  ELSE r

\* btree_remove on the caller's root: an internal root left with one child
\* gives way to that child and is destroyed
btree_remove_root(pl, pgs, root, key, stale) ==
  RootRemoved(stale, btree_remove(pl, pgs, root, key, stale, 0))

----------------------------------------------------------------------------
(* The tree specification: a caller that holds the root in the handle "a"
   inserts, removes and looks up keys, every pool call succeeding *)

\* the record of a tree call: stored is the value the caller last inserted
\* for each key and did not remove since, 0 for none
\* the caller makes at most MaxOps inserts and removes
MaxOps == 6

\* what the last call returned, the pairs the caller stored so far (0: none),
\* the value the caller had stored under the key before the call, and the
\* number of inserts and removes made
TRet(op, code, key, value, stored, ops) ==
  [op |-> op, code |-> code, key |-> key, value |-> value, stored |-> stored,
   had |-> IF key \in TreeKeys THEN nret.stored[key] ELSE 0, ops |-> ops]

\* the pool and the pages before the root is created
EmptyPool ==
  [pins |-> [p \in TreePageIds |-> 0], dirty |-> [p \in TreePageIds |-> FALSE],
   allocated |-> {}]

InitTree ==
  /\ LET c == btree_create_node(EmptyPool, [p \in TreePageIds |-> RawPage],
                                "E_LEAF", GetInst[1], GetInst[2], NullNode,
                                TRUE, INVALID_PAGE_ID)
     IN /\ pool = c.pool
        /\ pages = c.pages
        /\ nodes = [h \in Handles |-> IF h = "a" THEN c.node ELSE NullNode]
  /\ nret = [op |-> "new", code |-> "E_NO_ERROR", key |-> 0, value |-> 0,
             stored |-> [k \in TreeKeys |-> 0], had |-> 0, ops |-> 0]
  /\ NoStorage

\* the caller after a call on the root returned r
Returned(r, op, key, value, stored, ops) ==
  /\ pool' = r.pool
  /\ pages' = r.pages
  /\ nodes' = [nodes EXCEPT !["a"] = r.node]
  /\ nret' = TRet(op, r.code, key, value,
                  IF isError(r.code) THEN nret.stored ELSE stored, ops)
  /\ UNCHANGED storageVars

Insert ==
  /\ nret.code # "UNDEFINED"
  /\ nret.ops < MaxOps
  /\ \E key \in TreeKeys, value \in TreeValues, stale \in StaleIds :
       Returned(btree_insert_root(pool, pages, nodes["a"], key, value, stale),
                "insert", key, value, [nret.stored EXCEPT ![key] = value],
                nret.ops + 1)

\* the caller after btree_get returned r
Looked(r, key) ==
  /\ pool' = r.pool
  /\ nret' = TRet("get", r.code, key, r.value, nret.stored, nret.ops)
  /\ UNCHANGED <<pages, nodes>>
  /\ UNCHANGED storageVars

Lookup ==
  /\ nret.code # "UNDEFINED"
  /\ \E key \in TreeKeys :
       Looked(btree_get(pool, pages, nodes["a"].pId, key, 0, 0), key)

\* the caller after btree_remove returned r
Removal(r, key) ==
  Returned(r, "remove", key, r.report.value,
           [nret.stored EXCEPT ![key] = 0], nret.ops + 1)

Remove ==
  /\ nret.code # "UNDEFINED"
  /\ nret.ops < MaxOps
  /\ \E key \in TreeKeys, stale \in StaleIds :
       Removal(btree_remove_root(pool, pages, nodes["a"], key, stale), key)

NextTree == Insert \/ Remove \/ Lookup

SpecTree == InitTree /\ [][NextTree]_vars

----------------------------------------------------------------------------
(* Claims about the tree, checked under SpecTree *)

\* the root the caller holds
Root == nodes["a"].pId

\* the populated child slots of an internal page
Children(page) == {page.elements[i] : i \in 0..(page.m_numElements - 1)}

\* the pages the internal pages of the set name as children
ChildrenOf(set) ==
  UNION {Children(pages[p]) \cap DOMAIN pages :
           p \in {q \in set : pages[q].m_type = "E_INTERNAL"}}

RECURSIVE Reach(_, _)
\* the pages reached from the set in at most fuel levels
Reach(set, fuel) ==
  IF fuel = 0 \/ ChildrenOf(set) \subseteq set THEN set
  ELSE Reach(set \cup ChildrenOf(set), fuel - 1)

\* the pages of the subtree of page pId that are at most fuel levels below it
Subtree(pId, fuel) == Reach({pId} \cap DOMAIN pages, fuel)

\* the pages of the tree
TreePages == Subtree(Root, MaxLevel)

\* the keys a leaf page holds
LiveKeys(pId) ==
  {pages[pId].keys[i] : i \in 0..(pages[pId].m_numElements - 1)}

\* the keys the leaves under page pId hold
SubtreeKeys(pId) ==
  UNION {LiveKeys(p) : p \in {q \in Subtree(pId, MaxLevel) :
                                 pages[q].m_type = "E_LEAF"}}

\* the entries of the leaves of the tree: <<leaf, slot>>
LeafEntries ==
  {<<p, i>> \in TreePages \X (0..(Capacity - 1)) :
     pages[p].m_type = "E_LEAF" /\ i < pages[p].m_numElements}

\* C11: get of a key that was inserted and not removed since returns the
\* value of its most recent insert, and no insert leaves two entries of one
\* key in the leaves.
C11_GetReturnsLastInsert ==
  /\ (nret.op = "get" /\ nret.stored[nret.key] # 0) =>
       nret.code = "E_NO_ERROR" /\ nret.value = nret.stored[nret.key]
  /\ (nret.op \in {"insert", "remove"} /\ nret.code # "UNDEFINED") =>
       \A e1 \in LeafEntries, e2 \in LeafEntries :
         pages[e1[1]].keys[e1[2]] = pages[e2[1]].keys[e2[2]] => e1 = e2

\* C12: after an insert or a remove, in every internal node of the tree the
\* keys of its children are strictly ascending and keys[i] is the minimum
\* key of the subtree of child[i+1].
C12_SeparatorsAreSubtreeMinima ==
  (nret.op \in {"insert", "remove"} /\ nret.code # "UNDEFINED") =>
    \A p \in TreePages :
      pages[p].m_type = "E_INTERNAL" =>
        \A i \in 0..(pages[p].m_numElements - 2) :
          LET below == SubtreeKeys(pages[p].elements[i + 1])
          IN /\ i >= 1 => pages[p].keys[i - 1] < pages[p].keys[i]
             /\ pages[p].keys[i] \in below
             /\ \A k \in below : pages[p].keys[i] <= k

\* the child slots of the tree that name the page
Parents(pId) ==
  {<<p, i>> \in TreePages \X (0..(Capacity - 1)) :
     /\ pages[p].m_type = "E_INTERNAL" /\ i < pages[p].m_numElements
     /\ pages[p].elements[i] = pId}

\* the pages form a tree: no child slot names the root, one names each other
\* page
IsTree ==
  \A p \in TreePages :
    Cardinality(Parents(p)) = IF p = Root THEN 0 ELSE 1

RECURSIVE LeafSeq(_, _)
\* the leaves under page pId from left to right, down to fuel levels
LeafSeq(pId, fuel) ==
  LET RECURSIVE Upto(_)
      Upto(n) == IF n = 0 THEN <<>>
                 ELSE Upto(n - 1) \o LeafSeq(pages[pId].elements[n - 1],
                                             fuel - 1)
  IN IF pId \notin DOMAIN pages THEN <<>>
     ELSE IF pages[pId].m_type # "E_INTERNAL" \/ fuel = 0 THEN <<pId>>
     ELSE Upto(pages[pId].m_numElements)

\* the next link a reader of leaf pId sees: the root's is in the caller's
\* handle, any other leaf is loaded into a fresh handle
NextLink(pId, stale) ==
  IF pId = Root THEN nodes["a"].m_next
  ELSE btree_load_node(pool, pages, pId, GetInst[1], GetInst[2],
                       FreshNode(stale), TRUE).node.m_next

\* C13: after an insert or a remove that leaves the pages a tree, the next
\* links from the leftmost leaf visit every leaf of the tree once, in
\* ascending key order, and end at INVALID_PAGE_ID.
C13_NextChainVisitsEveryLeaf ==
  (nret.op \in {"insert", "remove"} /\ nret.code # "UNDEFINED" /\ IsTree) =>
    LET leaves == LeafSeq(Root, MaxLevel)
    IN \A i \in 1..Len(leaves) :
         /\ \A j \in 1..Len(leaves) : leaves[i] = leaves[j] => i = j
         /\ \A stale \in StaleIds :
              NextLink(leaves[i], stale) =
                IF i < Len(leaves) THEN leaves[i + 1] ELSE INVALID_PAGE_ID
         /\ i < Len(leaves) =>
              \A k1 \in LiveKeys(leaves[i]), k2 \in LiveKeys(leaves[i + 1]) :
                k1 < k2

\* what get returns for the key on the tree as it is
GetNow(key) == btree_get(pool, pages, Root, key, 0, 0)

\* get returns every pair the caller has stored and no other key
StoredPairsKept ==
  \A k \in TreeKeys :
    IF nret.stored[k] # 0
    THEN GetNow(k).code = "E_NO_ERROR" /\ GetNow(k).value = nret.stored[k]
    ELSE GetNow(k).code = "E_BTREE_KEY_NOT_FOUND"

\* C14: remove of a stored key returns its value, after which get of the key
\* returns E_BTREE_KEY_NOT_FOUND and get of every other stored key returns
\* its value; remove of a key that is not stored returns
\* E_BTREE_KEY_NOT_FOUND and leaves the stored pairs as they were.
C14_RemoveReturnsAndForgets ==
  (nret.op = "remove" /\ nret.code # "UNDEFINED") =>
    /\ IF nret.had # 0
       THEN nret.code = "E_NO_ERROR" /\ nret.value = nret.had
       ELSE nret.code = "E_BTREE_KEY_NOT_FOUND"
    /\ StoredPairsKept
----------------------------------------------------------------------------
(* The layout btree_create_node computes, over page sizes and the sizes of K
   and V.  The page sizes hold the header and one slot of the widest key, so
   that availableSize is not negative. *)

MinPageSize == 72
MaxPageSize == 104

PageSizes == MinPageSize..MaxPageSize

\* sizeof(K) and sizeof(V) of the instantiations laid out
TypeSizes == {1, 2, 4, 8, 16}

InitLayout ==
  /\ pool = [pins |-> <<>>, dirty |-> <<>>, allocated |-> {}]
  /\ pages = <<>>
  /\ nodes = <<>>
  /\ nret = [op |-> "none"]
  /\ NoStorage

\* the header fields create_node writes for a node of the type on a page of
\* pageSize bytes
Layout ==
  /\ \E pageSize \in PageSizes, kSize \in TypeSizes, vSize \in TypeSizes,
        type \in NodeTypes :
       /\ availableSize(pageSize, kSize) >= 0
       /\ nret' = [op |-> "layout", pageSize |-> pageSize,
                   m_type |-> type,
                   m_keySize |-> kSize,
                   m_elementSize |-> sizeOfElement(type, vSize),
                   m_maxNumElements |-> maxNumElements(pageSize, kSize),
                   m_keyStart |-> keyStart(kSize),
                   m_elementStart |-> elementStart(pageSize, kSize)]
  /\ UNCHANGED <<pool, pages, nodes, storageVars>>

NextLayout == Layout

SpecLayout == InitLayout /\ [][NextLayout]_vars

\* C21: when create_node yields maxNumElements >= 1, the key array and the
\* element array lie after the header, do not overlap, and end at or before
\* the last byte of the page.
C21_ArraysWithinThePage ==
  (nret.op = "layout" /\ nret.m_maxNumElements >= 1) =>
    LET keysEnd == nret.m_keyStart + nret.m_keySize * nret.m_maxNumElements
        elementsEnd == nret.m_elementStart
                         + nret.m_elementSize * nret.m_maxNumElements
    IN /\ nret.m_keyStart >= SizeofHeader
       /\ keysEnd <= nret.m_elementStart
       /\ elementsEnd <= nret.pageSize
----------------------------------------------------------------------------
(* The link specification: leaves are created, linked as a split links them
   (m_leaf.m_next of the handle is assigned a page id), unloaded, and loaded
   again into handles not used before.  saved records, for every page, the
   m_next its handle held when it was last unloaded (<<>>: never). *)

LinkPageIds == 1..(MaxPages + 1)

LinkRet(op, code, h, pId, saved) ==
  [op |-> op, code |-> code, h |-> h, pId |-> pId, saved |-> saved]

InitLink ==
  /\ pool = [pins |-> [p \in LinkPageIds |-> 0],
             dirty |-> [p \in LinkPageIds |-> FALSE],
             allocated |-> {}]
  /\ pages = [p \in LinkPageIds |-> RawPage]
  /\ nodes = [h \in Handles |-> NullNode]
  /\ nret = LinkRet("new", "E_NO_ERROR", "a", 0, [p \in LinkPageIds |-> <<>>])
  /\ NoStorage

\* the caller after a node call returned r for the handle h
LinkReturned(r, op, h, pId, saved) ==
  /\ pool' = r.pool
  /\ pages' = r.pages
  /\ nodes' = [nodes EXCEPT ![h] = r.node]
  /\ nret' = LinkRet(op, r.code, h, pId, saved)
  /\ UNCHANGED storageVars

\* the caller after create_node returned r
LinkCreated(r, h) ==
  LinkReturned(r, "create", h, r.node.pId,
               IF isError(r.code) THEN nret.saved
               ELSE [nret.saved EXCEPT ![r.node.pId] = <<>>])

CreateLeaf ==
  \E h \in Handles, stale \in StaleIds :
    /\ ~nodes[h].pinned
    /\ LinkCreated(btree_create_node(pool, pages, "E_LEAF", GetInst[1],
                                     GetInst[2], FreshNode(stale), TRUE,
                                     stale),
                   h)

\* the assignment a split makes to the next link of a pinned leaf
LinkLeaf ==
  /\ \E h \in Handles, next \in {INVALID_PAGE_ID} \cup LinkPageIds :
       /\ nodes[h].pinned
       /\ nodes[h].m_next # next
       /\ nodes' = [nodes EXCEPT ![h].m_next = next, ![h].m_dirty = TRUE]
       /\ nret' = LinkRet("link", "E_NO_ERROR", h, nodes[h].pId, nret.saved)
  /\ UNCHANGED <<pool, pages, storageVars>>

UnloadLeaf ==
  \E h \in Handles :
    /\ nodes[h].pinned
    /\ LinkReturned(btree_unload_node(pool, pages, nodes[h], TRUE), "unload",
                    h, nodes[h].pId,
                    [nret.saved EXCEPT ![nodes[h].pId] = <<nodes[h].m_next>>])

\* load of a page into a handle whose memory was not assigned before
LoadLeaf ==
  \E h \in Handles, pId \in LinkPageIds, stale \in StaleIds :
    /\ ~nodes[h].pinned
    /\ pId \in pool.allocated
    /\ LinkReturned(btree_load_node(pool, pages, pId, GetInst[1], GetInst[2],
                                    FreshNode(stale), TRUE),
                    "load", h, pId, nret.saved)

NextLeafLink == CreateLeaf \/ LinkLeaf \/ UnloadLeaf \/ LoadLeaf

SpecLink == InitLink /\ [][NextLeafLink]_vars

\* C24: a leaf loaded into a fresh handle has the next link its handle held
\* when the page was last unloaded.
C24_NextLinkIsPersisted ==
  (/\ nret.op = "load" /\ nret.code = "E_NO_ERROR"
   /\ nret.saved[nret.pId] # <<>>) =>
    nodes[nret.h].m_next = nret.saved[nret.pId][1]
----------------------------------------------------------------------------
(* The frame specification: btree_get on the pinned root (page 1) of each
   tree while other holders pin pages of the tree and one page below the
   root may carry a key size that is not sizeof(K); pre is the pool at
   entry *)

\* the page with a key size btree_load_node<K,V> refuses
Miswritten(page) == [page EXCEPT !.m_keySize = GetInst[1] + 4]

InitFrame ==
  /\ \E S \in SUBSET (1..MaxKey), staleKey \in StaleKeys, held \in {0, 1} :
       \E tree \in TreesOf(Ascending(S), staleKey) :
         \E bad \in {INVALID_PAGE_ID} \cup (DOMAIN tree \ {1}) :
           /\ pages = [p \in DOMAIN tree |->
                         IF p = bad THEN Miswritten(tree[p]) ELSE tree[p]]
           /\ pool = [pins |-> [p \in DOMAIN tree |->
                                  IF p = 1 THEN 1 ELSE held],
                      dirty |-> [p \in DOMAIN tree |-> p # 1 /\ held = 1],
                      allocated |-> DOMAIN tree]
  /\ nodes = [h \in Handles |->
                IF h = "a" THEN [NullNode EXCEPT !.pinned = TRUE, !.pId = 1]
                           ELSE NullNode]
  /\ nret = [op |-> "new", code |-> "E_NO_ERROR", path |-> <<>>, pre |-> pool]
  /\ NoStorage

GetFrame ==
  /\ \E key \in LookupKeys, failAt \in FailLevels :
       LET r == btree_get(pool, pages, nodes["a"].pId, key, failAt, 0)
       IN /\ pool' = r.pool
          /\ nret' = [op |-> "get", code |-> r.code, path |-> r.path,
                      pre |-> pool]
  /\ UNCHANGED <<pages, nodes, storageVars>>

NextFrame == GetFrame

SpecFrame == InitFrame /\ [][NextFrame]_vars

\* C25: whatever btree_get returns (the value, E_BTREE_KEY_NOT_FOUND or the
\* error of a load at any depth), every page has the pin count it had at
\* entry, so every child that was loaded was unloaded and the root is still
\* pinned, and no page was marked dirty, allocated or released.
C25_GetLeavesThePoolAsItWas ==
  nret.op = "get" =>
    /\ \A p \in DOMAIN pool.pins : pool.pins[p] = nret.pre.pins[p]
    /\ pool.dirty = nret.pre.dirty
    /\ pool.allocated = nret.pre.allocated
    /\ pool.pins[nodes["a"].pId] >= 1 /\ nodes["a"].pinned

\* a lookup that loaded a child of the root and then met a page with the
\* wrong key size two levels below the root
C25_Witness ==
  /\ nret.op = "get" /\ nret.code = "E_BTREE_CORRUPTED_PAGE"
  /\ Len(nret.path) = 1
  /\ pool = nret.pre
  /\ pool.pins[nret.path[1]] = 0
====
